---- MODULE Spec2Model ----
(***************************************************************************)
(* Vertebrae: BaseController (property synchronisation and lifecycle) and  *)
(* BaseModel (request engine, parser registry, route compiler).            *)
(*                                                                         *)
(* Eight specifications share the module:                                  *)
(*   Spec         the controller: sync bindings, view availability,        *)
(*                unload and destroy;                                      *)
(*   SpecSync     the controller's sync bindings with every option: call   *)
(*                shape, filter, callback and context;                     *)
(*   SpecNew      the controller from its construction on, failed          *)
(*                constructions included;                                  *)
(*   SpecReentrant  unload and destroy with teardown callbacks and an      *)
(*                'unload' handler that call unload or destroy;            *)
(*   SpecBind     the controller's bind listeners and their filters;       *)
(*   SpecParsers  the model class chain: extend (parser compilation) and   *)
(*                getParser;                                               *)
(*   SpecModel    requests on a model class: request, processResponse and  *)
(*                the parser handler;                                      *)
(*   SpecRoute    the generated route methods of                           *)
(*                createModelRequestMethods.                               *)
(* Each specification pins the variables of the others.                    *)
(***************************************************************************)
EXTENDS Integers, Sequences, FiniteSets, TLC

VARIABLES
  \* ---- controller ----
  prop,           \* value of the watched property on the target object
  available,      \* the view's getAvailable()
  view,           \* the controller's view property: "View" or "Null"
  defines,        \* which default-named handlers the controller class defines
  bindings,       \* per sync call: the closure variables previousValue, hasListened
  objListeners,   \* listeners on (target, 'change:<p>'), in registration order
  viewListeners,  \* one-shot listeners on (view, 'change:available'), in order
  unbind,         \* this._unbind
  unloaded,       \* this._unloaded === true
  life,           \* lifecycle calls made so far, in order
  out,            \* handler calls made by the last operation, in order
  last,           \* the last operation and its inputs
  \* ---- model classes and requests ----
  classes,        \* the class chain built by BaseModel.extend
  found,          \* the last getParser call and its result
  pending,        \* the request in flight
  settled,        \* the outcome of the last settled request
  \* ---- route methods ----
  mapping,        \* the route declaration: its "VERB path" key and its value
  route,          \* the methods createModelRequestMethods generated for it
  call            \* the last invocation of the generated method and its outcome

ctrlVars  == <<prop, available, view, defines, bindings, objListeners,
               viewListeners, unbind, unloaded, life, out, last>>
modelVars == <<classes, found, pending, settled>>
routeVars == <<mapping, route, call>>
vars      == <<ctrlVars, modelVars, routeVars>>

----------------------------------------------------------------------------
(* Bounds *)
MaxVal      == 2    \* property values 1..MaxVal besides undefined
MaxBindings == 2    \* sync calls per controller
MaxUnbind   == 2    \* teardown callbacks pushed on _unbind
MaxDestroy  == 2    \* destroy() calls per controller
MaxClasses  == 3    \* model classes: BaseModel and its subclasses
MaxParsers  == 2    \* entries of one class's parsers declaration
MaxId       == 1    \* values 0..MaxId of a params field (0 is falsy)
MaxExtra    == 1    \* arguments passed after params and opts

----------------------------------------------------------------------------
(* Values of the watched property: undefined, or one of MaxVal values.     *)
Undefined == <<>>
Values    == {Undefined} \cup {<<n>> : n \in 1..MaxVal}

(* The last operation: its name, the property's value before and after,  *)
(* the options of a sync call, and the flags it found.                     *)
Op(name, to, tv, tr) ==
  [op |-> name, from |-> prop, to |-> to, tv |-> tv, tr |-> tr,
   wasAvailable |-> available, wasUnloaded |-> unloaded]

NoOp == [op |-> "none", from |-> Undefined, to |-> Undefined, tv |-> FALSE,
         tr |-> FALSE, wasAvailable |-> FALSE, wasUnloaded |-> FALSE]

(* One handler call: h is the handler, b the binding, (cur, prev) its   *)
(* arguments.                                                              *)
Call(h, b, cur, prev) == [h |-> h, b |-> b, cur |-> cur, prev |-> prev]

(* One call of the fn callback of a binding, with the object it is bound   *)
(* to.                                                                     *)
FnCall(b, cur, prev, this) ==
  [h |-> "fn", b |-> b, cur |-> cur, prev |-> prev, this |-> this]

(* One lifecycle call, with the value of _unloaded when it was made.      *)
Life(ev, cb, flag) == [ev |-> ev, cb |-> cb, unloaded |-> flag]

(* The part of the state the sync closures read and write.                *)
World == [bindings |-> bindings, viewListeners |-> viewListeners, out |-> <<>>]

----------------------------------------------------------------------------
(* The options of a sync call. shape is "options" for sync(p, {...}, fn,   *)
(* context) and "callback" for sync(p, fn, context); tv and tr are the     *)
(* triggerView and trigger options given, filter is "none" or a filter     *)
(* function, fn and context tell whether a callback and a context are      *)
(* passed.                                                                 *)
Options(shape, tv, tr, filter, fn, context) ==
  [shape |-> shape, tv |-> tv, tr |-> tr, filter |-> filter, fn |-> fn,
   context |-> context]

(* sync: the call shape is normalised and _.defaults fills the keys that   *)
(* are undefined: a null handler name stays null.                          *)
normalize(o) ==
  IF o.shape = "callback"
    THEN [trigger |-> TRUE, triggerView |-> TRUE, targetHandler |-> "null",
          viewHandler |-> "null", filter |-> "none", fn |-> TRUE,
          context |-> o.context]
    ELSE [trigger |-> o.tr, triggerView |-> o.tv, targetHandler |-> "default",
          viewHandler |-> "default", filter |-> o.filter, fn |-> o.fn,
          context |-> o.context]

(* this[fnController] and that[fnView]: the default names resolve to the   *)
(* methods the controller class defines, null resolves to nothing.         *)
hasController_nullIsDefault(bd) == "ctrl" \in defines

hasController(bd) == bd.targetHandler = "default" /\ "ctrl" \in defines
hasView(bd)       == bd.viewHandler = "default" /\ "view" \in defines

(* filterFn.call(this, property): the default filter returns true; the     *)
(* filter function of the model rejects while the property's value is the  *)
(* first one.                                                              *)
filterFn(bd, cur) == bd.filter = "none" \/ cur # <<1>>

(* Variant: no hasListened guard, every deferral registers a listener.    *)
updateOnAvaible_noGuard(w, b, prev) ==
  [w EXCEPT !.bindings[b].hasListened = TRUE,
            !.viewListeners = Append(@, [kind |-> "sync", b |-> b, prev |-> prev])]

(* Variant: a later deferral replaces the pending listener of the binding. *)
updateOnAvaible_lastWins(w, b, prev) ==
  [w EXCEPT !.bindings[b].hasListened = TRUE,
            !.viewListeners =
               Append(SelectSeq(@, LAMBDA l : ~(l.kind = "sync" /\ l.b = b)),
                      [kind |-> "sync", b |-> b, prev |-> prev])]

(* sync: updateOnAvaible(prev)                                             *)
updateOnAvaible(w, b, prev) ==
  IF w.bindings[b].hasListened
    THEN w
    ELSE [w EXCEPT !.bindings[b].hasListened = TRUE,
                   !.viewListeners = Append(@, [kind |-> "sync", b |-> b, prev |-> prev])]

(* sync: updateView(prev); cur is getter(), avail is view.getAvailable()   *)
updateView(w, b, prev, cur, avail) ==
  IF hasView(w.bindings[b])
    THEN IF avail
           THEN [w EXCEPT !.out = Append(@, Call("view", b, cur, prev))]
           ELSE updateOnAvaible(w, b, prev)
    ELSE w

(* options.fn.call(options.context || this, currentValue, previousValue)   *)
callFn(w, b, cur, prev) ==
  LET bd == w.bindings[b]
  IN  IF bd.fn
        THEN [w EXCEPT !.out = Append(@, FnCall(b, cur, prev,
                                                IF bd.context THEN "context" ELSE "this"))]
        ELSE w

(* Variant: previousValue is overwritten before the handlers are called.   *)
changeListener_prevFirst(w, b, cur, avail) ==
  IF filterFn(w.bindings[b], cur)
    THEN LET w1 == IF hasController(w.bindings[b])
                     THEN [w EXCEPT !.out = Append(@, Call("ctrl", b, cur, cur))]
                     ELSE w
             w2 == callFn(w1, b, cur, cur)
             w3 == updateView(w2, b, cur, cur, avail)
         IN  [w3 EXCEPT !.bindings[b].previousValue = cur]
    ELSE w

(* Variant: a change the filter rejects still updates previousValue.       *)
changeListener_storesRejected(w, b, cur, avail) ==
  IF filterFn(w.bindings[b], cur)
    THEN LET prev == w.bindings[b].previousValue
             w1   == IF hasController(w.bindings[b])
                       THEN [w EXCEPT !.out = Append(@, Call("ctrl", b, cur, prev))]
                       ELSE w
             w2   == callFn(w1, b, cur, prev)
             w3   == updateView(w2, b, prev, cur, avail)
         IN  [w3 EXCEPT !.bindings[b].previousValue = cur]
    ELSE [w EXCEPT !.bindings[b].previousValue = cur]

(* Variant: the filter gates the controller handler and the fn callback,  *)
(* the view is pushed on every change.                                     *)
changeListener_viewUnfiltered(w, b, cur, avail) ==
  LET prev == w.bindings[b].previousValue
      pass == filterFn(w.bindings[b], cur)
      w1   == IF pass /\ hasController(w.bindings[b])
                THEN [w EXCEPT !.out = Append(@, Call("ctrl", b, cur, prev))]
                ELSE w
      w2   == IF pass THEN callFn(w1, b, cur, prev) ELSE w1
      w3   == updateView(w2, b, prev, cur, avail)
  IN  IF pass THEN [w3 EXCEPT !.bindings[b].previousValue = cur] ELSE w3

(* Variant: the view is pushed before the fn callback is called.          *)
changeListener_viewBeforeFn(w, b, cur, avail) ==
  IF filterFn(w.bindings[b], cur)
    THEN LET prev == w.bindings[b].previousValue
             w1   == IF hasController(w.bindings[b])
                       THEN [w EXCEPT !.out = Append(@, Call("ctrl", b, cur, prev))]
                       ELSE w
             w2   == updateView(w1, b, prev, cur, avail)
             w3   == callFn(w2, b, cur, prev)
         IN  [w3 EXCEPT !.bindings[b].previousValue = cur]
    ELSE w

(* sync: the listener of 'change:<p>'                                      *)
changeListener(w, b, cur, avail) ==
  IF filterFn(w.bindings[b], cur)
    THEN LET prev == w.bindings[b].previousValue
             w1   == IF hasController(w.bindings[b])
                       THEN [w EXCEPT !.out = Append(@, Call("ctrl", b, cur, prev))]
                       ELSE w
             w2   == callFn(w1, b, cur, prev)
             w3   == updateView(w2, b, prev, cur, avail)
         IN  [w3 EXCEPT !.bindings[b].previousValue = cur]
    ELSE w

(* obj.trigger('change:<p>'): every listener of ls, in registration order *)
RECURSIVE triggerChange(_, _, _, _)
triggerChange(w, ls, cur, avail) ==
  IF ls = <<>>
    THEN w
    ELSE triggerChange(changeListener(w, Head(ls), cur, avail), Tail(ls), cur, avail)

(* Variant: the availability listener of initialize stays registered.     *)
availableListener_persistent(w, l, cur, avail) ==
  IF l.kind = "init"
    THEN [w EXCEPT !.out = @ \o <<Call("view:available", 0, Undefined, Undefined),
                                  Call("viewIsAvailable", 0, Undefined, Undefined)>>,
                   !.viewListeners = Append(@, l)]
    ELSE updateView([w EXCEPT !.bindings[l.b].hasListened = FALSE],
                    l.b, l.prev, cur, avail)

(* Variant: a deferred push that finds the view still unavailable is      *)
(* dropped.                                                                *)
availableListener_dropsPush(w, l, cur, avail) ==
  IF l.kind = "init"
    THEN [w EXCEPT !.out = @ \o <<Call("view:available", 0, Undefined, Undefined),
                                  Call("viewIsAvailable", 0, Undefined, Undefined)>>]
    ELSE IF avail
           THEN updateView([w EXCEPT !.bindings[l.b].hasListened = FALSE],
                           l.b, l.prev, cur, avail)
           ELSE [w EXCEPT !.bindings[l.b].hasListened = FALSE]

(* The callback of one one-shot 'change:available' listener.               *)
availableListener(w, l, cur, avail) ==
  IF l.kind = "init"
    THEN [w EXCEPT !.out = @ \o <<Call("view:available", 0, Undefined, Undefined),
                                  Call("viewIsAvailable", 0, Undefined, Undefined)>>]
    ELSE updateView([w EXCEPT !.bindings[l.b].hasListened = FALSE],
                    l.b, l.prev, cur, avail)

(* view.trigger('change:available'): the n listeners registered when the  *)
(* event fires, in order; a one-shot listener is removed before its        *)
(* callback runs, and a listener added during the dispatch is not called.  *)
RECURSIVE triggerAvailable(_, _, _, _)
triggerAvailable(w, n, cur, avail) ==
  IF n = 0
    THEN w
    ELSE LET l  == Head(w.viewListeners)
             w1 == [w EXCEPT !.viewListeners = Tail(@)]
         IN  triggerAvailable(availableListener(w1, l, cur, avail), n - 1, cur, avail)

----------------------------------------------------------------------------
(* BaseController.sync(p, ...) called with the options o                   *)
syncResult(o) ==
  LET b    == Len(bindings) + 1
      opts == normalize(o)
      bd   == [previousValue |-> Undefined, hasListened |-> FALSE,
               targetHandler |-> opts.targetHandler, viewHandler |-> opts.viewHandler,
               filter |-> opts.filter, fn |-> opts.fn, context |-> opts.context]
      w0   == [World EXCEPT !.bindings = Append(@, bd)]
      ls   == Append(objListeners, b)
      w1   == IF opts.triggerView /\ filterFn(bd, prop)
                THEN updateView(w0, b, Undefined, prop, available)
                ELSE w0
      w2   == IF opts.trigger THEN triggerChange(w1, ls, prop, available) ELSE w1
  IN  [w2 EXCEPT !.bindings[b].previousValue = prop]

(* Variant: a second sync call on the property reuses the change listener *)
(* already registered.                                                     *)
SyncWith_deduplicated(o) ==
  /\ view # "Null"
  /\ Len(bindings) < MaxBindings
  /\ LET w == syncResult(o)
     IN  /\ bindings' = w.bindings
         /\ viewListeners' = w.viewListeners
         /\ out' = w.out
  /\ objListeners' = IF objListeners = <<>> THEN <<Len(bindings) + 1>> ELSE objListeners
  /\ last' = Op("sync", prop, normalize(o).triggerView, normalize(o).trigger)
  /\ UNCHANGED <<prop, available, view, defines, unbind, unloaded, life>>

SyncWith(o) ==
  /\ view # "Null"
  /\ Len(bindings) < MaxBindings
  /\ LET w == syncResult(o)
     IN  /\ bindings' = w.bindings
         /\ viewListeners' = w.viewListeners
         /\ out' = w.out
  /\ objListeners' = Append(objListeners, Len(bindings) + 1)
  /\ last' = Op("sync", prop, normalize(o).triggerView, normalize(o).trigger)
  /\ UNCHANGED <<prop, available, view, defines, unbind, unloaded, life>>

(* sync(p, {triggerView: tv, trigger: tr})                                 *)
Sync(tv, tr) == SyncWith(Options("options", tv, tr, "none", FALSE, FALSE))

(* The target's property changes from prop to v: 'change:<p>' fires.       *)
SetProp(v) ==
  /\ v # prop
  /\ prop' = v
  /\ LET w == triggerChange(World, objListeners, v, available)
     IN  /\ bindings' = w.bindings
         /\ viewListeners' = w.viewListeners
         /\ out' = w.out
  /\ last' = Op("set", v, FALSE, FALSE)
  /\ UNCHANGED <<available, view, defines, objListeners, unbind, unloaded, life>>

(* The view's available property changes to a: 'change:available' fires.   *)
SetAvailable(a) ==
  /\ a # available
  /\ available' = a
  /\ LET w == triggerAvailable(World, Len(viewListeners), prop, a)
     IN  /\ bindings' = w.bindings
         /\ viewListeners' = w.viewListeners
         /\ out' = w.out
  /\ last' = Op("available", prop, FALSE, FALSE)
  /\ UNCHANGED <<prop, view, defines, objListeners, unbind, unloaded, life>>

(* The view emits 'change:available' while getAvailable() keeps its value. *)
EmitAvailable ==
  /\ LET w == triggerAvailable(World, Len(viewListeners), prop, available)
     IN  /\ bindings' = w.bindings
         /\ viewListeners' = w.viewListeners
         /\ out' = w.out
  /\ last' = Op("emit", prop, FALSE, FALSE)
  /\ UNCHANGED <<prop, available, view, defines, objListeners, unbind, unloaded, life>>

----------------------------------------------------------------------------
(* The part of the state the lifecycle methods read and write.            *)
Ctl == [unbind |-> unbind, unloaded |-> unloaded, view |-> view, life |-> life,
        objListeners |-> objListeners, viewListeners |-> viewListeners]

(* unload: while (unbind.length > 0) unbind.pop().call(this)              *)
RECURSIVE runUnbind(_)
runUnbind(c) ==
  IF c.unbind = <<>>
    THEN c
    ELSE LET n == Len(c.unbind)
         IN  runUnbind([c EXCEPT !.unbind = SubSeq(@, 1, n - 1),
                                 !.life = Append(@, Life("callback", c.unbind[n], c.unloaded))])

(* Variant: no _unloaded guard.                                            *)
unloadCtl_noGuard(c) ==
  LET c1 == runUnbind(c)
      c2 == [c1 EXCEPT !.unloaded = TRUE]
      c3 == [c2 EXCEPT !.life = Append(@, Life("trigger:unload", 0, c2.unloaded))]
  IN  IF c3.view = "Null"
        THEN [c3 EXCEPT !.life = Append(@, Life("TypeError", 0, c3.unloaded))]
        ELSE [c3 EXCEPT !.life = Append(@, Life("view.unload", 0, c3.unloaded))]

(* BaseController.unload                                                   *)
unloadCtl(c) ==
  IF c.unloaded
    THEN c
    ELSE LET c1 == runUnbind(c)
             c2 == [c1 EXCEPT !.unloaded = TRUE]
             c3 == [c2 EXCEPT !.life = Append(@, Life("trigger:unload", 0, c2.unloaded))]
         IN  IF c3.view = "Null"
               THEN [c3 EXCEPT !.life = Append(@, Life("TypeError", 0, c3.unloaded))]
               ELSE [c3 EXCEPT !.life = Append(@, Life("view.unload", 0, c3.unloaded))]

(* Variant: the view property is cleared before the view is destroyed.     *)
destroyView_clearsFirst(c) ==
  LET c1 == [c EXCEPT !.view = "Null",
                      !.life = Append(@, Life("setView(null)", 0, c.unloaded))]
  IN  IF c1.view # "Null"
        THEN [c1 EXCEPT !.life = Append(@, Life("view.destroy", 0, c1.unloaded))]
        ELSE c1

(* BaseController.destroyView                                              *)
destroyView(c) ==
  LET c1 == IF c.view # "Null"
              THEN [c EXCEPT !.life = Append(@, Life("view.destroy", 0, c.unloaded))]
              ELSE c
  IN  [c1 EXCEPT !.view = "Null",
                 !.life = Append(@, Life("setView(null)", 0, c1.unloaded))]

(* The base teardown (BaseObject.destroy): detaches every listener the     *)
(* controller registered with listenTo / listenToOnce.                     *)
baseDestroy(c) ==
  [c EXCEPT !.objListeners = <<>>,
            !.viewListeners = <<>>,
            !.life = Append(@, Life("super.destroy", 0, c.unloaded))]

(* Variant: the base teardown is not called.                               *)
destroyCtl_noSuper(c) ==
  LET c1 == IF ~c.unloaded THEN unloadCtl(c) ELSE c
  IN  [destroyView(c1) EXCEPT !.life = Append(@, Life("super.destroy", 0, c1.unloaded))]

(* BaseController.destroy                                                  *)
destroyCtl(c) ==
  LET c1 == IF ~c.unloaded THEN unloadCtl(c) ELSE c
  IN  baseDestroy(destroyView(c1))

SetCtl(c) ==
  /\ unbind' = c.unbind
  /\ unloaded' = c.unloaded
  /\ view' = c.view
  /\ life' = c.life
  /\ objListeners' = c.objListeners
  /\ viewListeners' = c.viewListeners

(* How often the lifecycle call ev was made so far.                        *)
Count(ev) == Cardinality({i \in 1..Len(life) : life[i].ev = ev})

NumDestroys == Count("super.destroy")

(* Callbacks pushed so far: those still on _unbind and those already run.  *)
NumPushed == Len(unbind) + Count("callback")

(* this._unbind.push(callback): the callbacks are numbered as pushed       *)
PushUnbind ==
  /\ NumPushed < MaxUnbind
  /\ unbind' = Append(unbind, NumPushed + 1)
  /\ out' = <<>>
  /\ last' = Op("push", prop, FALSE, FALSE)
  /\ UNCHANGED <<prop, available, view, defines, bindings, objListeners,
                 viewListeners, unloaded, life>>

Unload ==
  /\ SetCtl(unloadCtl(Ctl))
  /\ out' = <<>>
  /\ last' = Op("unload", prop, FALSE, FALSE)
  /\ UNCHANGED <<prop, available, defines, bindings>>

Destroy ==
  /\ NumDestroys < MaxDestroy
  /\ SetCtl(destroyCtl(Ctl))
  /\ out' = <<>>
  /\ last' = Op("destroy", prop, FALSE, FALSE)
  /\ UNCHANGED <<prop, available, defines, bindings>>

----------------------------------------------------------------------------
ModelIdle == /\ classes = <<>> /\ found = <<>> /\ pending = <<>> /\ settled = <<>>
RouteIdle == /\ mapping = <<>> /\ route = <<>> /\ call = <<>>

(* The controller after construction: setupView assigned the view, and     *)
(* initialize armed the one-shot 'change:available' listener.              *)
Init ==
  /\ prop \in Values
  /\ available \in BOOLEAN
  /\ view = "View"
  /\ defines \in SUBSET {"ctrl", "view"}
  /\ bindings = <<>>
  /\ objListeners = <<>>
  /\ viewListeners = <<[kind |-> "init", b |-> 0, prev |-> Undefined]>>
  /\ unbind = <<>>
  /\ unloaded = FALSE
  /\ life = <<>>
  /\ out = <<>>
  /\ last = NoOp
  /\ ModelIdle
  /\ RouteIdle

Next ==
  \/ \E tv \in BOOLEAN, tr \in BOOLEAN : Sync(tv, tr) /\ UNCHANGED <<modelVars, routeVars>>
  \/ \E v \in Values : SetProp(v) /\ UNCHANGED <<modelVars, routeVars>>
  \/ \E a \in BOOLEAN : SetAvailable(a) /\ UNCHANGED <<modelVars, routeVars>>
  \/ EmitAvailable /\ UNCHANGED <<modelVars, routeVars>>
  \/ PushUnbind /\ UNCHANGED <<modelVars, routeVars>>
  \/ Unload /\ UNCHANGED <<modelVars, routeVars>>
  \/ Destroy /\ UNCHANGED <<modelVars, routeVars>>

Spec == Init /\ [][Next]_vars

----------------------------------------------------------------------------
(* Construction. How the controller class sets up its view: "class" (the   *)
(* class names a view class and keeps the default setupView), "none" (no   *)
(* view class, default setupView), "assigns" (setupView is overridden and  *)
(* assigns a view), "nothing" (setupView is overridden and assigns none).  *)
ViewSetups == {"class", "none", "assigns", "nothing"}

(* BaseController.setupView, or its override: the view it leaves assigned  *)
(* and what it throws.                                                     *)
setupView(setup) ==
  CASE setup = "class"   -> [view |-> "View", thrown |-> "none"]
    [] setup = "none"    -> [view |-> "Null", thrown |-> "'setupView' needs to be overridden"]
    [] setup = "assigns" -> [view |-> "View", thrown |-> "none"]
    [] OTHER             -> [view |-> "Null", thrown |-> "none"]

(* BaseController.initialize                                               *)
initialize(setup) ==
  LET sv == setupView(setup)
  IN  IF sv.thrown # "none"
        THEN [view |-> "Null", viewListeners |-> <<>>, thrown |-> sv.thrown]
        ELSE IF sv.view = "Null"
               THEN [view |-> "Null", viewListeners |-> <<>>,
                     thrown |-> "Error: A view was not properly assigned."]
               ELSE [view |-> sv.view,
                     viewListeners |-> <<[kind |-> "init", b |-> 0, prev |-> Undefined]>>,
                     thrown |-> "none"]

(* The record of a construction: the view setup and what new threw.        *)
New(setup, thrown) ==
  [op |-> "new", from |-> Undefined, to |-> Undefined, tv |-> FALSE, tr |-> FALSE,
   wasAvailable |-> FALSE, wasUnloaded |-> FALSE, setup |-> setup, thrown |-> thrown]

(* new Controller(): the state initialize leaves, or the throw.            *)
InitNew ==
  /\ prop \in Values
  /\ available \in BOOLEAN
  /\ defines \in SUBSET {"ctrl", "view"}
  /\ \E setup \in ViewSetups :
       LET c == initialize(setup)
       IN  /\ view = c.view
           /\ viewListeners = c.viewListeners
           /\ last = New(setup, c.thrown)
  /\ bindings = <<>>
  /\ objListeners = <<>>
  /\ unbind = <<>>
  /\ unloaded = FALSE
  /\ life = <<>>
  /\ out = <<>>
  /\ ModelIdle
  /\ RouteIdle

(* The constructor returned: there is a controller to call.                *)
Constructed == IF last.op = "new" THEN last.thrown = "none" ELSE TRUE

NextNew ==
  \/ Constructed /\ \E tv \in BOOLEAN, tr \in BOOLEAN : Sync(tv, tr) /\ UNCHANGED <<modelVars, routeVars>>
  \/ Constructed /\ \E v \in Values : SetProp(v) /\ UNCHANGED <<modelVars, routeVars>>
  \/ Constructed /\ \E a \in BOOLEAN : SetAvailable(a) /\ UNCHANGED <<modelVars, routeVars>>
  \/ Constructed /\ EmitAvailable /\ UNCHANGED <<modelVars, routeVars>>
  \/ Constructed /\ Unload /\ UNCHANGED <<modelVars, routeVars>>
  \/ Constructed /\ Destroy /\ UNCHANGED <<modelVars, routeVars>>

SpecNew == InitNew /\ [][NextNew]_vars

----------------------------------------------------------------------------
(* Reentrant teardown: a teardown callback, or the class's handler of the  *)
(* 'unload' event, may itself call unload() or destroy() on the            *)
(* controller. A callback is a record of its number and of what it calls;  *)
(* the class's 'unload' handler is named in defines. thrown tells that an  *)
(* exception is propagating: every enclosing call is abandoned.            *)
Reentries == {"nothing", "unload", "destroy"}

CtlRe == [unbind |-> unbind, unloaded |-> unloaded, view |-> view, life |-> life,
          objListeners |-> objListeners, viewListeners |-> viewListeners,
          thrown |-> FALSE]

RECURSIVE unloadRe(_)
RECURSIVE destroyRe(_)
RECURSIVE runUnbindRe(_)

(* The body of a callback or handler that calls k.                         *)
reenter(c, k) ==
  CASE k = "unload"  -> unloadRe(c)
    [] k = "destroy" -> destroyRe(c)
    [] OTHER         -> c

(* unload: while (unbind.length > 0) unbind.pop().call(this)              *)
runUnbindRe(c) ==
  IF c.thrown \/ c.unbind = <<>>
    THEN c
    ELSE LET n  == Len(c.unbind)
             cb == c.unbind[n]
             c1 == [c EXCEPT !.unbind = SubSeq(@, 1, n - 1),
                             !.life = Append(@, Life("callback", cb.id, c.unloaded))]
         IN  runUnbindRe(reenter(c1, cb.calls))

(* unload: this.trigger('unload'); the class's handler of the event runs   *)
(* until the base teardown has detached it.                                *)
triggerUnload(c) ==
  LET c1 == [c EXCEPT !.life = Append(@, Life("trigger:unload", 0, c.unloaded))]
      detached == \E i \in 1..Len(c.life) : c.life[i].ev = "super.destroy"
  IN  CASE detached -> c1
        [] "unload:unload" \in defines  -> reenter(c1, "unload")
        [] "unload:destroy" \in defines -> reenter(c1, "destroy")
        [] OTHER -> c1

(* BaseController.unload                                                   *)
unloadRe(c) ==
  IF c.thrown \/ c.unloaded
    THEN c
    ELSE LET c1 == runUnbindRe(c)
             c2 == IF c1.thrown THEN c1 ELSE triggerUnload([c1 EXCEPT !.unloaded = TRUE])
         IN  IF c2.thrown
               THEN c2
               ELSE IF c2.view = "Null"
                      THEN [c2 EXCEPT !.life = Append(@, Life("TypeError", 0, c2.unloaded)),
                                      !.thrown = TRUE]
                      ELSE [c2 EXCEPT !.life = Append(@, Life("view.unload", 0, c2.unloaded))]

(* BaseController.destroy                                                  *)
destroyRe(c) ==
  IF c.thrown
    THEN c
    ELSE LET c1 == IF ~c.unloaded THEN unloadRe(c) ELSE c
         IN  IF c1.thrown THEN c1 ELSE baseDestroy(destroyView(c1))

(* this._unbind.push(callback), the callback calling k                     *)
PushRe(k) ==
  /\ NumPushed < MaxUnbind
  /\ unbind' = Append(unbind, [id |-> NumPushed + 1, calls |-> k])
  /\ out' = <<>>
  /\ last' = Op("push", prop, FALSE, FALSE)
  /\ UNCHANGED <<prop, available, view, defines, bindings, objListeners,
                 viewListeners, unloaded, life>>

UnloadRe ==
  /\ SetCtl(unloadRe(CtlRe))
  /\ out' = <<>>
  /\ last' = Op("unload", prop, FALSE, FALSE)
  /\ UNCHANGED <<prop, available, defines, bindings>>

DestroyRe ==
  /\ NumDestroys < MaxDestroy
  /\ SetCtl(destroyRe(CtlRe))
  /\ out' = <<>>
  /\ last' = Op("destroy", prop, FALSE, FALSE)
  /\ UNCHANGED <<prop, available, defines, bindings>>

InitRe ==
  /\ prop \in Values
  /\ available \in BOOLEAN
  /\ view = "View"
  /\ defines \in {{}, {"unload:unload"}, {"unload:destroy"}}
  /\ bindings = <<>>
  /\ objListeners = <<>>
  /\ viewListeners = <<[kind |-> "init", b |-> 0, prev |-> Undefined]>>
  /\ unbind = <<>>
  /\ unloaded = FALSE
  /\ life = <<>>
  /\ out = <<>>
  /\ last = NoOp
  /\ ModelIdle
  /\ RouteIdle

NextRe ==
  \/ \E k \in Reentries : PushRe(k) /\ UNCHANGED <<modelVars, routeVars>>
  \/ UnloadRe /\ UNCHANGED <<modelVars, routeVars>>
  \/ DestroyRe /\ UNCHANGED <<modelVars, routeVars>>

SpecReentrant == InitRe /\ [][NextRe]_vars

----------------------------------------------------------------------------
(* BaseController.bind(eventName, fn, options). The filter option given:   *)
(* "none" (no option), "null", "function", "method" (a string naming a     *)
(* method, which the class defines or not), "other" (a truthy value that   *)
(* is neither a string nor a function).                                    *)
BindFilters == {"none", "null", "function", "method", "other"}
Events      == {"a", "b"}

(* bind: options.filter after _.defaults and the normalisation: "default"  *)
(* is function() {}, "function" a function of the caller or the class,     *)
(* "null" and "undefined" are no function at all.                          *)
resolveFilter(f) ==
  CASE f = "none"     -> "default"
    [] f = "null"     -> "null"
    [] f = "function" -> "function"
    [] f = "method"   -> IF "filter" \in defines THEN "function" ELSE "undefined"
    [] OTHER          -> "default"

(* The record of a notification of the controller: its event and argument. *)
Notification(ev, arg) ==
  [op |-> "trigger", from |-> prop, to |-> prop, tv |-> FALSE, tr |-> FALSE,
   wasAvailable |-> available, wasUnloaded |-> unloaded, ev |-> ev, arg |-> arg]

(* One call of the fn of bind number b, and the TypeError of calling a     *)
(* filter that is no function.                                             *)
BindCall(b, arg) == [h |-> "fn", b |-> b, args |-> <<arg>>, this |-> "this"]
BindError(b)     == [h |-> "TypeError", b |-> b]

(* Variant: the default filter returns true.                               *)
bindListener_defaultPasses(o, b, arg) ==
  LET f == bindings[b].filter
  IN  CASE f \in {"null", "undefined"}      -> Append(o, BindError(b))
        [] f = "default"                    -> Append(o, BindCall(b, arg))
        [] f = "function" /\ prop # <<1>>   -> Append(o, BindCall(b, arg))
        [] OTHER                            -> o

(* bind: the listener; the filter functions of the model return a truthy   *)
(* value unless the property has its first value.                          *)
bindListener(o, b, arg) ==
  LET f == bindings[b].filter
  IN  CASE f \in {"null", "undefined"}      -> Append(o, BindError(b))
        [] f = "function" /\ prop # <<1>>   -> Append(o, BindCall(b, arg))
        [] OTHER                            -> o

(* this.trigger(ev, arg): the listeners of ev from number b on, in         *)
(* registration order; an exception ends the dispatch.                     *)
RECURSIVE triggerEvent(_, _, _, _)
triggerEvent(o, b, ev, arg) ==
  IF b > Len(bindings) \/ (o # <<>> /\ o[Len(o)].h = "TypeError")
    THEN o
    ELSE IF bindings[b].event = ev
           THEN triggerEvent(bindListener(o, b, arg), b + 1, ev, arg)
           ELSE triggerEvent(o, b + 1, ev, arg)

Bind(ev, f) ==
  /\ Len(bindings) < MaxBindings
  /\ bindings' = Append(bindings, [event |-> ev, given |-> f, filter |-> resolveFilter(f)])
  /\ out' = <<>>
  /\ last' = Op("bind", prop, FALSE, FALSE)
  /\ UNCHANGED <<prop, available, view, defines, objListeners, viewListeners,
                 unbind, unloaded, life>>

Notify(ev, arg) ==
  /\ out' = triggerEvent(<<>>, 1, ev, arg)
  /\ last' = Notification(ev, arg)
  /\ UNCHANGED <<prop, available, view, defines, bindings, objListeners,
                 viewListeners, unbind, unloaded, life>>

InitBind ==
  /\ prop \in Values
  /\ available = FALSE
  /\ view = "View"
  /\ defines \in SUBSET {"filter"}
  /\ bindings = <<>>
  /\ objListeners = <<>>
  /\ viewListeners = <<[kind |-> "init", b |-> 0, prev |-> Undefined]>>
  /\ unbind = <<>>
  /\ unloaded = FALSE
  /\ life = <<>>
  /\ out = <<>>
  /\ last = NoOp
  /\ ModelIdle
  /\ RouteIdle

NextBind ==
  \/ \E ev \in Events, f \in BindFilters : Bind(ev, f) /\ UNCHANGED <<modelVars, routeVars>>
  \/ \E ev \in Events, arg \in Values : Notify(ev, arg) /\ UNCHANGED <<modelVars, routeVars>>
  \/ \E v \in Values : SetProp(v) /\ UNCHANGED <<modelVars, routeVars>>

SpecBind == InitBind /\ [][NextBind]_vars

----------------------------------------------------------------------------
(* The sync calls with every option: both call shapes, triggerView,        *)
(* trigger, a filter function, a callback and its context.                 *)
SyncOptions ==
  { Options("options", tv, tr, f, fn, ctx) :
      tv \in BOOLEAN, tr \in BOOLEAN, f \in {"none", "notOne"},
      fn \in BOOLEAN, ctx \in BOOLEAN }
  \cup { Options("callback", TRUE, TRUE, "none", TRUE, ctx) : ctx \in BOOLEAN }

(* Bindings do not read each other's closure variables, so a behaviour of *)
(* SpecSync makes one sync call; Spec covers several bindings at once.     *)
NextSync ==
  \/ /\ bindings = <<>>
     /\ \E o \in SyncOptions : SyncWith(o) /\ UNCHANGED <<modelVars, routeVars>>
  \/ \E v \in Values : SetProp(v) /\ UNCHANGED <<modelVars, routeVars>>
  \/ \E a \in BOOLEAN : SetAvailable(a) /\ UNCHANGED <<modelVars, routeVars>>
  \/ EmitAvailable /\ UNCHANGED <<modelVars, routeVars>>

SpecSync == Init /\ [][NextSync]_vars

----------------------------------------------------------------------------
(* BaseModel: values, parser declarations, class statics.                  *)

(* JavaScript values: null, undefined, a primitive n (falsy when 0), an    *)
(* object with the optional fields ok and data (0: the field is absent),   *)
(* a JSON string of a value, and the result of an echoing handler.         *)
JNull        == [t |-> "null"]
JUndefined   == [t |-> "undefined"]
JPrim(n)     == [t |-> "prim", n |-> n]
JObj(ok, d)  == [t |-> "obj", ok |-> ok, data |-> d]
JEmpty       == JObj(0, 0)
JString(v)   == [t |-> "json", of |-> v]
JApp(h, payload, params) == [t |-> "app", h |-> h, payload |-> payload, params |-> params]

Truthy(v) == v.t \in {"obj", "app", "json"} \/ (v.t = "prim" /\ v.n # 0)

(* v || {}                                                                 *)
OrEmpty(v) == IF Truthy(v) THEN v ELSE JEmpty

(* _.defaults(o, d) on objects: d fills the fields o lacks.                *)
Defaults(o, d) ==
  JObj(IF o.ok = 0 THEN d.ok ELSE o.ok, IF o.data = 0 THEN d.data ELSE o.data)

(* String(s).toLowerCase() on the verb strings used.                       *)
ToLowerCase(s) ==
  CASE s \in {"GET", "Get", "get"}       -> "get"
    [] s \in {"POST", "Post", "post"}    -> "post"
    [] s \in {"PUT", "put"}              -> "put"
    [] s \in {"DELETE", "delete"}        -> "delete"
    [] OTHER                             -> s

(* A path pattern is a sequence of segments: a literal, or a named         *)
(* parameter ':name', compiled to ([^/]+).                                 *)
Lit(x)   == [k |-> "lit", s |-> x]
Named(x) == [k |-> "named", s |-> x]

(* The declared keys: "VERB path", "path", "#verb#path".                   *)
Key(verb, hverb, path) == [verb |-> verb, hverb |-> hverb, path |-> path]
ParserKeys ==
  { Key("GET", "", <<Lit("doc"), Named("id")>>),      \* "GET doc/:id"
    Key("", "", <<Lit("doc"), Named("id")>>),         \* "doc/:id"
    Key("", "Post", <<Lit("doc"), Lit("1")>>) }       \* "#Post#doc/1"

Uris  == { <<"doc">>, <<"doc", "1">>, <<"doc", "2">> }

(* new RegExp('^' + route + '$').test(uri)                                 *)
Test(pattern, uri) ==
  /\ Len(pattern) = Len(uri)
  /\ \A i \in 1..Len(pattern) : pattern[i].k = "named" \/ pattern[i].s = uri[i]

NoHandler == [id |-> <<0, 0>>, kind |-> "none"]

(* The parsers declarations a class may make: up to MaxParsers entries     *)
(* with distinct keys; each handler echoes its arguments or returns        *)
(* nothing.                                                                *)
Declarations(kinds) ==
  UNION { { d \in [1..n -> [key : ParserKeys, kind : kinds]] :
              \A i, j \in 1..n : d[i].key = d[j].key => i = j }
          : n \in 0..MaxParsers }

(* parseParsers(stat): the entries of the class numbered cls.              *)
parseParsers(decl, cls) ==
  [i \in 1..Len(decl) |->
     LET key       == decl[i].key
         hasMethod == key.verb # ""
         type      == IF key.hverb # ""
                        THEN ToLowerCase(key.hverb)
                        ELSE IF hasMethod THEN ToLowerCase(key.verb) ELSE ""
     IN  [uri |-> key.path,
          callback |-> [id |-> <<cls, i>>, kind |-> decl[i].kind],
          type |-> type]]

(* BaseModel and its statics: parsers: {}, no _parsers, the default hooks. *)
BaseModel ==
  [parent |-> 0, parsers |-> <<>>, declared |-> FALSE, _parsers |-> <<>>,
   valid |-> "default", success |-> "identity", defaults |-> "null"]

(* The statics a subclass inherits unless it declares them.                *)
inherit(own, inherited) == IF own = "inherit" THEN inherited ELSE own

(* Variant: the inherited entries come before the subclass's own.          *)
extend_parentFirst(cs, p, stat) ==
  LET parent == cs[p]
      cls    == Len(cs) + 1
  IN  [parent   |-> p,
       parsers  |-> IF stat.declares THEN stat.parsers ELSE parent.parsers,
       declared |-> stat.declares,
       _parsers |-> IF stat.declares
                      THEN parent._parsers \o parseParsers(stat.parsers, cls)
                      ELSE parent._parsers,
       valid    |-> inherit(stat.valid, parent.valid),
       success  |-> inherit(stat.success, parent.success),
       defaults |-> inherit(stat.defaults, parent.defaults)]

(* BaseModel.extend(proto, stat) called on class p of cs.                  *)
extend(cs, p, stat) ==
  LET parent == cs[p]
      cls    == Len(cs) + 1
  IN  [parent   |-> p,
       parsers  |-> IF stat.declares THEN stat.parsers ELSE parent.parsers,
       declared |-> stat.declares,
       _parsers |-> IF stat.declares
                      THEN parseParsers(stat.parsers, cls) \o parent._parsers
                      ELSE parent._parsers,
       valid    |-> inherit(stat.valid, parent.valid),
       success  |-> inherit(stat.success, parent.success),
       defaults |-> inherit(stat.defaults, parent.defaults)]

(* BaseModel.getParser(uri, type) on the class whose _parsers is parsers.  *)
RECURSIVE getParser(_, _, _)
getParser(parsers, uri, type) ==
  IF parsers = <<>>
    THEN NoHandler
    ELSE LET parser == Head(parsers)
         IN  IF parser.type # "" /\ parser.type # ToLowerCase(type)
               THEN getParser(Tail(parsers), uri, type)
               ELSE IF Test(parser.uri, uri)
                      THEN parser.callback
                      ELSE getParser(Tail(parsers), uri, type)

(* The statics of a subclass that only declares parsers.                   *)
ParserStats ==
  { [declares |-> FALSE, parsers |-> <<>>, valid |-> "inherit",
     success |-> "inherit", defaults |-> "inherit"] }
  \cup
  { [declares |-> TRUE, parsers |-> d, valid |-> "inherit",
     success |-> "inherit", defaults |-> "inherit"] : d \in Declarations({"echo"}) }

(* The type strings getParser is called with (options.type; "undefined"    *)
(* is String(undefined), a request made without a type).                   *)
Types == {"GET", "get", "POST", "undefined"}

(* A subclass of the most derived class is defined.                        *)
Extend(stat) ==
  /\ Len(classes) < MaxClasses
  /\ classes' = Append(classes, extend(classes, Len(classes), stat))
  /\ UNCHANGED <<found, pending, settled>>

(* getParser is called on the most derived class.                          *)
GetParser(uri, type) ==
  /\ found' = <<[cls |-> Len(classes), uri |-> uri, type |-> type,
                 result |-> getParser(classes[Len(classes)]._parsers, uri, type)]>>
  /\ UNCHANGED <<classes, pending, settled>>

CtrlIdle ==
  /\ prop = Undefined /\ available = FALSE /\ view = "Null" /\ defines = {}
  /\ bindings = <<>> /\ objListeners = <<>> /\ viewListeners = <<>>
  /\ unbind = <<>> /\ unloaded = FALSE /\ life = <<>> /\ out = <<>> /\ last = NoOp

InitParsers ==
  /\ classes = <<BaseModel>>
  /\ found = <<>>
  /\ pending = <<>>
  /\ settled = <<>>
  /\ CtrlIdle
  /\ RouteIdle

NextParsers ==
  \/ \E stat \in ParserStats :
       Extend(stat) /\ UNCHANGED <<ctrlVars, routeVars>>
  \/ \E uri \in Uris, type \in Types :
       GetParser(uri, type) /\ UNCHANGED <<ctrlVars, routeVars>>

SpecParsers == InitParsers /\ [][NextParsers]_vars

----------------------------------------------------------------------------
(* BaseModel.request and processResponse.                                  *)

Timeout        == 30000   \* BaseModel.timeout
FallbackTimeout == 500    \* getAjaxTimeout: Number(this.timeout) || 500
rootURI        == "/"

getAjaxTimeout == IF Timeout # 0 THEN Timeout ELSE FallbackTimeout

(* The hooks of a class.                                                   *)
getResponseDefaults(c) == IF c.defaults = "null" THEN JNull ELSE JObj(1, 0)

isValidResponse(c, resp) ==
  CASE c.valid = "default" -> Truthy(resp)                      \* !!resp
    [] c.valid = "ok"      -> resp.t = "obj" /\ resp.ok # 0     \* !!resp.ok
    [] OTHER               -> FALSE                             \* false

getResponseSuccessPayload(c, resp) ==
  CASE c.success = "identity" -> resp                           \* resp
    [] OTHER -> IF resp.t = "obj" /\ resp.data # 0              \* resp.data
                  THEN JPrim(resp.data) ELSE JUndefined

getResponseFailPayload(c, resp) == resp

(* get / post / put / del: the defaults each verb method adds to the       *)
(* caller's options; request is called without a type.                     *)
Methods == {"get", "post", "put", "del", "request"}
verbOptions(method) ==
  CASE method = "get"  -> [type |-> "GET", jsonBody |-> FALSE]
    [] method = "post" -> [type |-> "POST", jsonBody |-> FALSE]
    [] method = "put"  -> [type |-> "PUT", jsonBody |-> TRUE]
    [] method = "del"  -> [type |-> "DELETE", jsonBody |-> FALSE]
    [] OTHER           -> [type |-> "undefined", jsonBody |-> FALSE]

(* request(uri, params, options) up to the transport call: the options     *)
(* handed to ajax, and the params the continuation keeps.                  *)
request(c, method, uri, params) ==
  LET vo   == verbOptions(method)
      pars == OrEmpty(params)
  IN  [cls |-> c, uri |-> uri, given |-> params, params |-> pars,
       options |-> [type |-> vo.type, jsonBody |-> vo.jsonBody,
                    url |-> <<rootURI>> \o uri,
                    timeout |-> getAjaxTimeout,
                    data |-> IF vo.jsonBody THEN JString(pars) ELSE pars]]

(* processResponse(resp): the arguments isValidResponse was called with,   *)
(* and the rejection or the success payload.                               *)
processResponse(c, body) ==
  LET d    == getResponseDefaults(c)
      resp == IF Truthy(d) THEN Defaults(OrEmpty(body), d) ELSE body
      arg  == OrEmpty(resp)
  IN  IF ~isValidResponse(c, arg)
        THEN [ok |-> FALSE, validArgs |-> <<arg>>, value |-> getResponseFailPayload(c, arg)]
        ELSE [ok |-> TRUE, validArgs |-> <<arg>>, value |-> getResponseSuccessPayload(c, arg)]

(* What a handler returns.                                                 *)
Apply(h, payload, params) ==
  IF h.kind = "nothing" THEN JUndefined ELSE JApp(h.id, payload, params)

(* Variant: the handler is given options.data instead of params.           *)
requestThen_passesData(c, req, payload) ==
  LET parser    == getParser(c._parsers, req.uri, req.options.type)
      modelizer == IF parser # NoHandler THEN parser ELSE NoHandler
      result    == IF modelizer = NoHandler
                     THEN payload
                     ELSE Apply(modelizer, payload, req.options.data)
  IN  [value |-> OrEmpty(result),
       handlerCalls |-> IF modelizer = NoHandler THEN <<>>
                        ELSE <<[h |-> modelizer.id, payload |-> payload,
                                params |-> req.options.data]>>]

(* request: the continuation run on the success payload (defaultHandler    *)
(* returns its argument and is not a parser handler).                      *)
requestThen(c, req, payload) ==
  LET parser    == getParser(c._parsers, req.uri, req.options.type)
      modelizer == IF parser # NoHandler THEN parser ELSE NoHandler
      result    == IF modelizer = NoHandler
                     THEN payload
                     ELSE Apply(modelizer, payload, req.params)
  IN  [value |-> OrEmpty(result),
       handlerCalls |-> IF modelizer = NoHandler THEN <<>>
                        ELSE <<[h |-> modelizer.id, payload |-> payload,
                                params |-> req.params]>>]

(* The outcome of the request req whose transport call answered body.      *)
outcome(c, req, body) ==
  LET pr == processResponse(c, body)
  IN  IF pr.ok
        THEN LET t == requestThen(c, req, pr.value)
             IN  [req |-> req, body |-> body, state |-> "resolved", value |-> t.value,
                  payload |-> pr.value, validArgs |-> pr.validArgs,
                  handlerCalls |-> t.handlerCalls]
        ELSE [req |-> req, body |-> body, state |-> "rejected", value |-> pr.value,
              payload |-> JUndefined, validArgs |-> pr.validArgs,
              handlerCalls |-> <<>>]

Params == {JUndefined, JObj(0, 1)}
Bodies == {JNull, JUndefined} \cup {JObj(ok, d) : ok \in 0..1, d \in 0..1}
TransportError == [t |-> "error"]

(* A request is issued on the most derived class.                          *)
Request(method, uri, params) ==
  /\ pending = <<>>
  /\ pending' = <<request(Len(classes), method, uri, params)>>
  /\ settled' = <<>>
  /\ UNCHANGED <<classes, found>>

(* The transport call answers with a body.                                 *)
Respond(body) ==
  /\ pending # <<>>
  /\ settled' = <<outcome(classes[pending[1].cls], pending[1], body)>>
  /\ pending' = <<>>
  /\ UNCHANGED <<classes, found>>

(* The transport call fails: the rejection reaches the caller unchanged.   *)
TransportFails ==
  /\ pending # <<>>
  /\ settled' = <<[req |-> pending[1], body |-> TransportError, state |-> "rejected",
                   value |-> TransportError, payload |-> JUndefined,
                   validArgs |-> <<>>, handlerCalls |-> <<>>]>>
  /\ pending' = <<>>
  /\ UNCHANGED <<classes, found>>

(* The statics of a model class: parsers and hook overrides.               *)
ModelStats ==
  { [declares |-> dc, parsers |-> d, valid |-> v, success |-> sp, defaults |-> df] :
      dc \in {TRUE}, d \in Declarations({"echo", "nothing"}),
      v \in {"inherit", "ok", "never"}, sp \in {"inherit", "data"},
      df \in {"inherit", "ok"} }
  \cup
  { [declares |-> FALSE, parsers |-> <<>>, valid |-> v, success |-> sp, defaults |-> df] :
      v \in {"inherit", "ok", "never"}, sp \in {"inherit", "data"},
      df \in {"inherit", "ok"} }

InitModel ==
  /\ \E stat \in ModelStats : classes = <<BaseModel, extend(<<BaseModel>>, 1, stat)>>
  /\ found = <<>>
  /\ pending = <<>>
  /\ settled = <<>>
  /\ CtrlIdle
  /\ RouteIdle

NextModel ==
  \/ \E method \in Methods, uri \in Uris, params \in Params :
       Request(method, uri, params) /\ UNCHANGED <<ctrlVars, routeVars>>
  \/ \E body \in Bodies : Respond(body) /\ UNCHANGED <<ctrlVars, routeVars>>
  \/ TransportFails /\ UNCHANGED <<ctrlVars, routeVars>>

SpecModel == InitModel /\ [][NextModel]_vars

----------------------------------------------------------------------------
(* createModelRequestMethods: the generated route methods.                 *)

(* Argument values: undefined, a number, a string, or an object, which is  *)
(* a function from its keys to numbers and strings.                        *)
AUndefined == [t |-> "undefined"]
ANum(n)    == [t |-> "num", n |-> n]
AStr(x)    == [t |-> "str", s |-> x]
AObj(f)    == [t |-> "obj", o |-> f]
AEmpty     == AObj(<<>>)

ATruthy(v) == v.t = "obj" \/ (v.t = "num" /\ v.n # 0) \/ (v.t = "str" /\ v.s # "")

(* obj[name]                                                               *)
Get(v, name) ==
  IF v.t = "obj" /\ name \in DOMAIN v.o THEN v.o[name] ELSE AUndefined

(* delete data[prop] for each prop of names                                *)
Delete(v, names) ==
  IF v.t = "obj"
    THEN AObj([k \in (DOMAIN v.o) \ names |-> v.o[k]])
    ELSE v

(* _.defaults(opts, options)                                               *)
ADefaults(v, d) ==
  IF v.t = "obj" /\ d.t = "obj"
    THEN AObj([k \in (DOMAIN v.o) \cup (DOMAIN d.o) |->
                 IF k \in DOMAIN v.o THEN v.o[k] ELSE d.o[k]])
    ELSE v

(* String(value), as String.prototype.replace converts what the replace   *)
(* callback returns.                                                       *)
ToStr(v) ==
  CASE v.t = "undefined" -> "undefined"
    [] v.t = "num"       -> ToString(v.n)
    [] v.t = "str"       -> v.s
    [] OTHER             -> "[object Object]"

(* A positional placeholder ':$n' of a uri template, and a substituted     *)
(* value in a resolved uri.                                                *)
Pos(x)     == [k |-> "pos", s |-> x]
Val(v)     == [k |-> "val", v |-> ToStr(v)]

(* StringUtils.camelCase on the names used.                                *)
camelCase(x) ==
  CASE x = "foo" -> "Foo"
    [] x = "bar" -> "Bar"
    [] OTHER     -> x

(* The route declarations: "VERB path" mapped to a name, or to an object   *)
(* {fn: name, cache: ...} carrying static options.                         *)
RouteKeys ==
  { [verb |-> "GET",    uri |-> <<Lit("foo"), Named("id")>>],                \* "GET foo/:id"
    [verb |-> "PUT",    uri |-> <<Lit("foo"), Named("id"), Named("name")>>], \* "PUT foo/:id/:name"
    [verb |-> "POST",   uri |-> <<Lit("foo")>>],                             \* "POST foo"
    [verb |-> "GET",    uri |-> <<Lit("foo"), Pos("$0")>>],                  \* "GET foo/:$0"
    [verb |-> "DELETE", uri |-> <<Lit("foo"), Pos("$0"), Named("id")>>],     \* "DELETE foo/:$0/:id"
    [verb |-> "GET",    uri |-> <<Lit("foo"), Pos("$1"), Pos("$0")>>],       \* "GET foo/:$1/:$0"
    [verb |-> "CRUD",   uri |-> <<Lit("foo")>>] }                            \* "CRUD foo"

RouteValues ==
  { AStr("foo"), AStr("bar"), AObj([fn |-> AStr("foo"), cache |-> ANum(1)]) }

crud == <<"POST", "GET", "PUT", "DEL">>

crudMethods(m) ==
  CASE m = "POST" -> "requestCreate"
    [] m = "GET"  -> "requestOne"
    [] m = "PUT"  -> "requestUpdate"
    [] OTHER      -> "requestDelete"

(* The map key -> generated method that one createMethod(options, route)   *)
(* call adds: method is the lower-cased verb ('delete' becomes 'del'), fn  *)
(* the name, options the static options (null for a string value).         *)
Generated(fn, verb, uri, options) ==
  LET lower  == CASE verb = "GET" -> "get" [] verb = "POST" -> "post"
                  [] verb = "PUT" -> "put" [] verb = "DELETE" -> "delete"
                  [] verb = "DEL" -> "del" [] OTHER -> "crud"
      method == IF lower = "delete" THEN "del" ELSE lower
  IN  [fn |-> fn, method |-> method, uri |-> uri, options |-> options]

(* Variant: the CRUD methods are named after the path of the route string. *)
createMethod_nameFromRoute(options, key) ==
  LET fn   == IF options.t = "str" THEN <<options.s>> ELSE <<options.o["fn"].s>>
      opts == IF options.t = "str" THEN AUndefined ELSE options
  IN  IF key.verb = "CRUD"
        THEN [i \in 1..Len(crud) |->
                LET m   == crud[i]
                    uri == CASE m = "GET" -> key.uri \o <<Pos("$0")>>
                             [] m \in {"PUT", "DEL"} -> key.uri \o <<Named("id")>>
                             [] OTHER -> key.uri
                IN  Generated(<<crudMethods(m), camelCase(key.uri[1].s)>>, m, uri, AUndefined)]
        ELSE <<Generated(fn, key.verb, key.uri, opts)>>

createMethod(options, key) ==
  LET fn   == IF options.t = "str" THEN <<options.s>> ELSE <<options.o["fn"].s>>
      opts == IF options.t = "str" THEN AUndefined ELSE options
  IN  IF key.verb = "CRUD"
        THEN [i \in 1..Len(crud) |->
                LET m   == crud[i]
                    uri == CASE m = "GET" -> key.uri \o <<Pos("$0")>>
                             [] m \in {"PUT", "DEL"} -> key.uri \o <<Named("id")>>
                             [] OTHER -> key.uri
                IN  Generated(<<crudMethods(m), camelCase(fn[1])>>, m, uri, AUndefined)]
        ELSE <<Generated(fn, key.verb, key.uri, opts)>>

(* arguments[i] of a call made with args                                   *)
Arg(args, i) == IF i + 1 <= Len(args) THEN args[i + 1] ELSE AUndefined

(* The replace callback over the placeholders of uri from segment i on:    *)
(* r holds the resolved segments, counter, toDelete, and whether the       *)
(* callback threw (and for which name).                                    *)
RECURSIVE replacedUri(_, _, _, _, _)
replacedUri(uri, i, args, data, r) ==
  IF i > Len(uri) \/ r.thrown
    THEN r
    ELSE LET seg == uri[i]
         IN  CASE seg.k = "lit" ->
                    replacedUri(uri, i + 1, args, data,
                                [r EXCEPT !.uri = Append(@, seg)])
               [] seg.k = "pos" ->
                    replacedUri(uri, i + 1, args, data,
                                [r EXCEPT !.uri = Append(@, Val(Arg(args, r.counter))),
                                          !.counter = @ + 1])
               [] OTHER ->
                    IF ATruthy(data) /\ ATruthy(Get(data, seg.s))
                      THEN replacedUri(uri, i + 1, args, data,
                                       [r EXCEPT !.uri = Append(@, Val(Get(data, seg.s))),
                                                 !.toDelete = @ \cup {seg.s}])
                      ELSE [r EXCEPT !.thrown = TRUE, !.missing = seg.s]

(* Variant: the signature (params, opts, ...positional): positional       *)
(* placeholders read the arguments after the first two.                    *)
routeMethod_paramsFirst(m, args) ==
  LET r0   == [uri |-> <<>>, counter |-> 2, toDelete |-> {},
               thrown |-> FALSE, missing |-> ""]
      r    == replacedUri(m.uri, 1, args, Arg(args, 0), r0)
      d0   == Arg(args, 0)
      data == Delete(IF ATruthy(d0) THEN d0 ELSE AEmpty, r.toDelete)
      o0   == Arg(args, 1)
      o1   == IF ATruthy(o0) THEN o0 ELSE AEmpty
      opts == IF ATruthy(m.options) THEN ADefaults(o1, m.options) ELSE o1
  IN  IF r.thrown
        THEN [thrown |-> TRUE, missing |-> r.missing, method |-> "", uri |-> <<>>,
              data |-> AUndefined, opts |-> AUndefined]
        ELSE [thrown |-> FALSE, missing |-> "", method |-> m.method, uri |-> r.uri,
              data |-> data, opts |-> opts]

(* An object the method holds: v is its value; it is either the caller's  *)
(* argument number arg itself or a fresh object of the method.             *)
Ref(i, v) == [fresh |-> FALSE, arg |-> i, v |-> v]

(* Variant: the clone is the object itself.                                *)
clone_sameObject(r) == r

(* _.clone(x): a new object with the keys of x; a primitive is returned    *)
(* as it is.                                                               *)
clone(r) == IF r.v.t = "obj" THEN [r EXCEPT !.fresh = TRUE] ELSE r

(* x || {}                                                                 *)
orFresh(r) == IF ATruthy(r.v) THEN r ELSE [fresh |-> TRUE, arg |-> r.arg, v |-> AEmpty]

(* What this[method](uri, data, opts) and request write into opts: the     *)
(* verb method's defaults, then data and url as defaults, then timeout,    *)
(* and for a json body contentType, the serialised data and processData.   *)
sendOptions(method, o, uri, data) ==
  IF o.t # "obj"
    THEN o
    ELSE LET vo == verbOptions(method)
             d1 == ADefaults(o, AObj(IF vo.jsonBody
                                       THEN [type |-> AStr(vo.type),
                                             jsonBody |-> [t |-> "bool", b |-> TRUE]]
                                       ELSE [type |-> AStr(vo.type)]))
             d2 == ADefaults(d1, AObj([data |-> IF ATruthy(data) THEN data ELSE AEmpty,
                                       url |-> [t |-> "url", u |-> <<rootURI>> \o uri]]))
             d3 == AObj([timeout |-> ANum(getAjaxTimeout)] @@ d2.o)
         IN  IF vo.jsonBody
               THEN AObj([contentType |-> AStr("application/json"),
                          data |-> [t |-> "json", of |-> d3.o["data"]],
                          processData |-> [t |-> "bool", b |-> FALSE]] @@ d3.o)
               ELSE d3

(* routes[fn] = function(params, opts) { ... } called with args: what it   *)
(* passes to this[method], the options object as request leaves it (sent), *)
(* and the caller's arguments after the call (args).                       *)
routeMethod(m, args) ==
  LET r0   == [uri |-> <<>>, counter |-> 0, toDelete |-> {}, thrown |-> FALSE,
               missing |-> ""]
      r    == replacedUri(m.uri, 1, args, clone(Ref(0, Arg(args, 0))).v, r0)
      d0   == orFresh(clone(Ref(r.counter, Arg(args, r.counter))))
      d1   == [d0 EXCEPT !.v = Delete(@, r.toDelete)]
      o0   == orFresh(clone(Ref(r.counter + 1, Arg(args, r.counter + 1))))
      o1   == IF ATruthy(m.options) THEN [o0 EXCEPT !.v = ADefaults(@, m.options)] ELSE o0
      o2   == [o1 EXCEPT !.v = sendOptions(m.method, @, r.uri, d1.v)]
      left == [i \in 1..Len(args) |->
                 CASE ~d1.fresh /\ d1.arg = i - 1 -> d1.v
                   [] ~o2.fresh /\ o2.arg = i - 1 -> o2.v
                   [] OTHER -> args[i]]
  IN  IF r.thrown
        THEN [thrown |-> TRUE, missing |-> r.missing, method |-> "", uri |-> <<>>,
              data |-> AUndefined, opts |-> AUndefined, sent |-> AUndefined,
              args |-> args]
        ELSE [thrown |-> FALSE, missing |-> "", method |-> m.method, uri |-> r.uri,
              data |-> d1.v, opts |-> o1.v, sent |-> o2.v, args |-> left]

(* The arguments of a call: params, opts and up to MaxExtra more.          *)
ParamKeys == {"id", "name", "x"}
ParamObjects ==
  UNION { [ks -> {ANum(n) : n \in 0..MaxId}] : ks \in SUBSET ParamKeys }
FirstArgs  == {AUndefined} \cup {ANum(n) : n \in 0..MaxId} \cup {AObj(f) : f \in ParamObjects}
SecondArgs == {AUndefined, AEmpty, AObj([cache |-> ANum(0)])}
ExtraArgs  == UNION { [1..n -> {ANum(k) : k \in 0..MaxId}] : n \in 0..MaxExtra }

(* A generated method is called. The method keeps no state between calls, *)
(* so a behaviour follows one class definition by one call.                *)
Invoke(i, args) ==
  /\ call = <<>>
  /\ call' = <<[fn |-> route[i].fn, m |-> route[i], args |-> args,
                result |-> routeMethod(route[i], args)]>>
  /\ UNCHANGED <<mapping, route>>

(* A model class is defined with one route declaration.                    *)
InitRoute ==
  /\ \E key \in RouteKeys, value \in RouteValues :
       /\ mapping = [key |-> key, value |-> value]
       /\ route = createMethod(value, key)
  /\ call = <<>>
  /\ CtrlIdle
  /\ classes = <<>> /\ found = <<>> /\ pending = <<>> /\ settled = <<>>

NextRoute ==
  /\ call = <<>>
  /\ \E i \in 1..Len(route), p \in FirstArgs, o \in SecondArgs, x \in ExtraArgs :
       Invoke(i, <<p, o>> \o x) /\ UNCHANGED <<ctrlVars, modelVars>>

SpecRoute == InitRoute /\ [][NextRoute]_vars

----------------------------------------------------------------------------
(* Properties of the controller, checked under Spec.                       *)

(* The pending one-shot 'change:available' listeners of binding b.         *)
SyncListeners(ls, b) == SelectSeq(ls, LAMBDA l : l.kind = "sync" /\ l.b = b)

(* The calls of handler h made for binding b.                              *)
CallsOf(o, h, b) == SelectSeq(o, LAMBDA c : c.h = h /\ c.b = b)

Deferred(b, prev) == [kind |-> "sync", b |-> b, prev |-> prev]

(* The step is the first change of p after a sync(p) with default options  *)
(* made while the view was unavailable; the binding is the newest one.     *)
C1_FirstChange ==
  /\ last.op = "sync" /\ last.tv /\ ~last.tr /\ ~available
  /\ last'.op = "set"

(* At that change: the controller handler runs with (new, old), the view   *)
(* handler does not run, and the push stays deferred with captured.        *)
C1_AtChange(captured) ==
  LET b == Len(bindings)
  IN  /\ "ctrl" \in defines =>
           CallsOf(out', "ctrl", b) = <<Call("ctrl", b, prop', prop)>>
      /\ CallsOf(out', "view", b) = <<>>
      /\ "view" \in defines =>
           SyncListeners(viewListeners', b) = <<Deferred(b, captured)>>

(* No view handler runs in a step that leaves the view unavailable.        *)
C1_NoPushWhileUnavailable ==
  ~available' => \A i \in 1..Len(out') : out'[i].h # "view"

(* The step is the view's transition to available.                         *)
BecomesAvailable == ~available /\ available'

(* At the transition every deferred push runs with the current value and   *)
(* the previous value its listener captured.                               *)
C1_AtAvailable ==
  \A b \in 1..Len(bindings) :
    LET ls == SyncListeners(viewListeners, b)
    IN  CallsOf(out', "view", b) =
          [i \in 1..Len(ls) |-> Call("view", b, prop, ls[i].prev)]

(* C1 as amended: for a binding created by sync(p) while the view is       *)
(* unavailable, a change of p from old to new invokes the controller       *)
(* handler synchronously with (new, old); the view handler is not invoked  *)
(* until the view's availability transition, where it is invoked with      *)
(* (new, undefined): the deferred push is the bind-time one, whose         *)
(* captured previous value is undefined whatever old was.                  *)
C1_DeferredPushKeepsBindTimePrevious ==
  [][ /\ C1_FirstChange => C1_AtChange(Undefined)
      /\ C1_NoPushWhileUnavailable
      /\ BecomesAvailable => C1_AtAvailable ]_vars

(* C1 as stated: the deferred push replays (new, old).                     *)
C1_Original ==
  [][ /\ C1_FirstChange => C1_AtChange(prop)
      /\ C1_NoPushWhileUnavailable
      /\ BecomesAvailable => C1_AtAvailable ]_vars

(* C1's case: p changed from a defined old value while the view was        *)
(* unavailable; the controller handler ran with (new, old) and the pending *)
(* push still holds undefined.                                             *)
C1_Witness ==
  /\ last.op = "set" /\ last.from # Undefined /\ ~available
  /\ \E b \in 1..Len(bindings) :
       /\ Call("ctrl", b, prop, last.from) \in {out[i] : i \in 1..Len(out)}
       /\ SyncListeners(viewListeners, b) = <<Deferred(b, Undefined)>>

(* C2 as amended: when several changes occur while the view is             *)
(* unavailable, the first registered deferred push stays pending and later *)
(* changes register nothing; a push registered at a change captures the    *)
(* value before that change, and at the availability transition the view   *)
(* handler receives the previous value of that first registration.         *)
C2_FirstDeferredPushWins ==
  [][ /\ (last'.op = "set" /\ ~available) =>
           \A b \in 1..Len(bindings) :
             LET ls == SyncListeners(viewListeners, b)
             IN  IF ls # <<>>
                   THEN SyncListeners(viewListeners', b) = ls
                   ELSE SyncListeners(viewListeners', b) \in {<<>>, <<Deferred(b, prop)>>}
      /\ BecomesAvailable =>
           \A b \in 1..Len(bindings) :
             LET ls == SyncListeners(viewListeners, b)
             IN  /\ Len(ls) <= 1
                 /\ ls # <<>> => CallsOf(out', "view", b) = <<Call("view", b, prop, ls[1].prev)>>
    ]_vars

(* C2 as stated: after a change made while the view is unavailable the     *)
(* pending push of every listening binding holds the previous value        *)
(* captured by that (most recent) change.                                  *)
C2_Original ==
  [][ (last'.op = "set" /\ ~available /\ "view" \in defines) =>
        \A i \in 1..Len(objListeners) :
          LET b == objListeners[i]
          IN  SyncListeners(viewListeners', b) = <<Deferred(b, prop)>> ]_vars

(* C2's case: the view became available after p had changed at least      *)
(* twice while a push was pending (away from a value and back to it): the  *)
(* view handler ran once, with the previous value captured by the first of *)
(* those changes, which equals the current value.                          *)
C2_Witness ==
  /\ last.op = "available" /\ available /\ prop # Undefined
  /\ \E b \in 1..Len(bindings) :
       CallsOf(out, "view", b) = <<Call("view", b, prop, prop)>>

(* C3: every binding has at most one pending one-shot listener.            *)
C3_Inv ==
  \A b \in 1..Len(bindings) : Len(SyncListeners(viewListeners, b)) <= 1

(* C3: in every reachable state each sync binding has at most one pending  *)
(* one-shot 'change:available' listener, and one availability transition   *)
(* runs the view handler of a binding with a pending push exactly once     *)
(* (and of a binding without one not at all).                              *)
C3_AtMostOnePendingListener ==
  /\ []C3_Inv
  /\ [][ BecomesAvailable =>
           \A b \in 1..Len(bindings) :
             Len(CallsOf(out', "view", b)) =
               (IF SyncListeners(viewListeners, b) # <<>> THEN 1 ELSE 0) ]_vars

(* C3's case: a change was made while a push was already pending (the      *)
(* pending one holds an older previous value), and still one is pending.   *)
C3_Witness ==
  /\ last.op = "set" /\ ~available
  /\ \E b \in 1..Len(bindings) :
       /\ bindings[b].hasListened
       /\ Len(SyncListeners(viewListeners, b)) = 1
       /\ SyncListeners(viewListeners, b)[1].prev # last.from

(* The calls unload makes from state (unbind, view): the callbacks last    *)
(* pushed first, then 'unload', then the view's unload.                    *)
UnloadCalls ==
  [i \in 1..Len(unbind) |-> Life("callback", unbind[Len(unbind) + 1 - i], FALSE)]
    \o <<Life("trigger:unload", 0, TRUE), Life("view.unload", 0, TRUE)>>

(* C4: the first unload() runs every registered teardown callback once in  *)
(* LIFO order, then marks the controller unloaded, fires 'unload' and      *)
(* calls the view's unload; every later unload() changes nothing and makes *)
(* no call.                                                                *)
C4_UnloadIdempotent ==
  [][ last'.op = "unload" =>
        IF unloaded
          THEN UNCHANGED <<unbind, unloaded, view, life, objListeners, viewListeners>>
          ELSE /\ life' = life \o UnloadCalls
               /\ unbind' = <<>>
               /\ unloaded' ]_vars

(* C4's case: unload() was called on an unloaded controller whose first    *)
(* unload ran two callbacks.                                               *)
C4_Witness ==
  /\ last.op = "unload" /\ last.wasUnloaded
  /\ Count("callback") >= 2
  /\ Count("view.unload") = 1

(* The calls destroy makes after its unload step.                          *)
DestroyCalls(hadView) ==
  (IF hadView THEN <<Life("view.destroy", 0, TRUE)>> ELSE <<>>)
    \o <<Life("setView(null)", 0, TRUE), Life("super.destroy", 0, TRUE)>>

(* C5: destroy() unloads only if the controller is not unloaded, then      *)
(* destroys the view, clears the view property, then runs the base         *)
(* teardown; afterwards the controller holds no view; over any sequence of *)
(* unload() and destroy() calls the view is destroyed at most once and the *)
(* unload steps run at most once.                                          *)
C5_DestroyOrder ==
  /\ [][ last'.op = "destroy" =>
           /\ life' = life \o (IF unloaded THEN <<>> ELSE UnloadCalls)
                          \o DestroyCalls(view # "Null")
           /\ view' = "Null"
           /\ unloaded' ]_vars
  /\ [](/\ Count("view.destroy") <= 1
        /\ Count("trigger:unload") <= 1
        /\ Count("view.unload") <= 1
        /\ \A n \in 1..MaxUnbind :
             Cardinality({i \in 1..Len(life) : life[i] = Life("callback", n, FALSE)}) <= 1)

(* C5's case: destroy() was called twice, the first on a controller that   *)
(* was not yet unloaded and had a callback registered.                     *)
C5_Witness ==
  /\ last.op = "destroy" /\ last.wasUnloaded
  /\ NumDestroys = 2
  /\ Count("callback") >= 1
  /\ Count("view.destroy") = 1

(* C6: once a controller that made sync calls is destroyed, none of its    *)
(* listeners remains on the observed object or on the view, and later      *)
(* changes of p and availability events invoke no handler.                 *)
C6_NoListenersAfterDestroy ==
  /\ [](NumDestroys >= 1 => (objListeners = <<>> /\ viewListeners = <<>>))
  /\ [][ (NumDestroys >= 1 /\ last'.op \in {"set", "available", "emit"}) =>
           out' = <<>> ]_vars

(* C6's case: a controller with a binding that had a pending push was      *)
(* destroyed, and p changed afterwards.                                    *)
C6_Witness ==
  /\ NumDestroys >= 1
  /\ last.op = "set"
  /\ \E b \in 1..Len(bindings) : bindings[b].hasListened
  /\ defines = {"ctrl", "view"}

----------------------------------------------------------------------------
(* Properties of the model classes.                                        *)

(* C7: a request whose transport response body is falsy always yields a    *)
(* rejected future, whatever isValidResponse the class defines.            *)
C7_FalsyBodyRejects ==
  \A i \in 1..Len(settled) :
    ~Truthy(settled[i].body) => settled[i].state = "rejected"

(* What `|| {}` makes of a handler's result.                               *)
C8_Resolved(result) == IF Truthy(result) THEN result ELSE JEmpty

(* The parser handler getParser selects for the settled request.           *)
C8_Parser(st) ==
  getParser(classes[st.req.cls]._parsers, st.req.uri, st.req.options.type)

(* C8 as amended: for every request whose response passes validation: if   *)
(* no parser entry matches (uri, verb) the future resolves to the success  *)
(* payload unchanged when that payload is truthy and to {} when it is      *)
(* falsy; if an entry matches, its handler is called once with (payload,   *)
(* params), params being the request's params or {} when none were given,  *)
(* and the future resolves to its result, or to {} when the result is      *)
(* falsy. A request whose response fails validation invokes no handler.    *)
C8_ResolvedValue ==
  \A i \in 1..Len(settled) :
    LET st == settled[i]
        h  == C8_Parser(st)
        ps == IF Truthy(st.req.given) THEN st.req.given ELSE JEmpty
    IN  /\ st.state = "rejected" => st.handlerCalls = <<>>
        /\ (st.state = "resolved" /\ h = NoHandler) =>
             /\ st.handlerCalls = <<>>
             /\ st.value = C8_Resolved(st.payload)
        /\ (st.state = "resolved" /\ h # NoHandler) =>
             /\ st.handlerCalls = <<[h |-> h.id, payload |-> st.payload, params |-> ps]>>
             /\ st.value = C8_Resolved(Apply(h, st.payload, ps))

(* C8 as stated: with no matching entry the future resolves to the success *)
(* payload unchanged; with one, to handler(payload, originalParams) or {}  *)
(* when that is falsy; a rejected request invokes no handler.              *)
C8_Original ==
  \A i \in 1..Len(settled) :
    LET st == settled[i]
        h  == C8_Parser(st)
        ps == IF Truthy(st.req.given) THEN st.req.given ELSE JEmpty
    IN  /\ st.state = "rejected" => st.handlerCalls = <<>>
        /\ (st.state = "resolved" /\ h = NoHandler) =>
             /\ st.handlerCalls = <<>>
             /\ st.value = st.payload
        /\ (st.state = "resolved" /\ h # NoHandler) =>
             /\ st.handlerCalls = <<[h |-> h.id, payload |-> st.payload, params |-> ps]>>
             /\ st.value = C8_Resolved(Apply(h, st.payload, ps))

(* C8's case: a PUT request (JSON body) with params resolved through a     *)
(* matching handler that echoes its arguments.                             *)
C8_Witness ==
  \E i \in 1..Len(settled) :
    /\ settled[i].state = "resolved"
    /\ settled[i].req.options.jsonBody
    /\ settled[i].req.given # JUndefined
    /\ settled[i].value.t = "app"

(* The entries declared along the parent chain of class c, the most        *)
(* derived class first, each class's entries in declaration order.         *)
RECURSIVE DeclaredEntries(_)
DeclaredEntries(c) ==
  IF c = 0
    THEN <<>>
    ELSE (IF classes[c].declared
            THEN [i \in 1..Len(classes[c].parsers) |->
                    [cls |-> c, pos |-> i, key |-> classes[c].parsers[i].key]]
            ELSE <<>>)
         \o DeclaredEntries(classes[c].parent)

(* A declared entry is not skipped for the requested verb and its pattern  *)
(* matches the uri.                                                        *)
C9_Eligible(e, uri, type) ==
  LET verb == IF e.key.hverb # "" THEN e.key.hverb ELSE e.key.verb
  IN  /\ verb = "" \/ ToLowerCase(verb) = ToLowerCase(type)
      /\ Test(e.key.path, uri)

(* C9: getParser(uri, verb) returns the handler of the first entry, in the *)
(* order subclass entries before inherited ones, whose verb is unset or    *)
(* equals the requested verb ignoring case and whose pattern matches uri,  *)
(* undefined when there is none; so among matching entries of several      *)
(* classes the one of the most derived class wins.                         *)
C9_FirstMatchMostDerived ==
  \A n \in 1..Len(found) :
    LET f    == found[n]
        es   == DeclaredEntries(f.cls)
        hits == {i \in 1..Len(es) : C9_Eligible(es[i], f.uri, f.type)}
    IN  IF hits = {}
          THEN f.result = NoHandler
          ELSE LET i == CHOOSE i \in hits : \A j \in hits : i <= j
               IN  /\ f.result.id = <<es[i].cls, es[i].pos>>
                   /\ \A j \in hits : es[j].cls <= es[i].cls

(* C9's case: a lookup on the most derived of three classes, with a        *)
(* lower-case verb, returned the second entry of that class (the first was *)
(* skipped) although an entry of its parent matched too.                   *)
C9_Witness ==
  \E n \in 1..Len(found) :
    LET f  == found[n]
        es == DeclaredEntries(f.cls)
    IN  /\ f.cls = 3 /\ f.type = "get"
        /\ f.result.id = <<3, 2>>
        /\ \E j \in 1..Len(es) : es[j].cls = 2 /\ C9_Eligible(es[j], f.uri, f.type)

----------------------------------------------------------------------------
(* Properties of the generated route methods, under SpecRoute.             *)

(* The names of the named placeholders of a uri template.                  *)
NamedOf(uri) == {uri[i].s : i \in {j \in 1..Len(uri) : uri[j].k = "named"}}

(* C10: for a route "VERB path" whose placeholders are named ones,         *)
(* invoking the generated method with params that contain every such name  *)
(* calls the verb's request method with each placeholder replaced by       *)
(* params[name] and with a body equal to params minus the consumed keys.   *)
C10_NamedPlaceholders ==
  \A n \in 1..Len(call) :
    LET c      == call[n]
        uri    == c.m.uri
        params == c.args[1]
    IN  ( /\ NamedOf(uri) # {}
          /\ \A i \in 1..Len(uri) : uri[i].k # "pos"
          /\ params.t = "obj"
          /\ NamedOf(uri) \subseteq DOMAIN params.o )
        =>
        /\ ~c.result.thrown
        /\ c.result.method = c.m.method
        /\ c.result.uri = [i \in 1..Len(uri) |->
                             IF uri[i].k = "named" THEN Val(params.o[uri[i].s]) ELSE uri[i]]
        /\ c.result.data = AObj([k \in (DOMAIN params.o) \ NamedOf(uri) |-> params.o[k]])

(* C11: a generated route method throws exactly when some named           *)
(* placeholder of its uri template has no key in params (the first         *)
(* argument); when every such key is present, whatever its value (0        *)
(* included), the call does not throw and each named placeholder is        *)
(* replaced by the key's value.                                            *)
C11_ThrowsExactlyWhenKeyAbsent ==
  \A n \in 1..Len(call) :
    LET c       == call[n]
        uri     == c.m.uri
        params  == c.args[1]
        has(nm) == params.t = "obj" /\ nm \in DOMAIN params.o
    IN  /\ c.result.thrown <=> (\E nm \in NamedOf(uri) : ~has(nm))
        /\ ~c.result.thrown =>
             \A i \in 1..Len(uri) :
               uri[i].k = "named" => c.result.uri[i] = Val(params.o[uri[i].s])

(* The positional placeholders of a uri template, in order of occurrence, *)
(* and the index written in a placeholder ':$n'.                           *)
PosOf(uri) == SelectSeq([i \in 1..Len(uri) |-> i], LAMBDA i : uri[i].k = "pos")

PosIndex(x) == CASE x = "$0" -> 0 [] OTHER -> 1

OrEmptyArg(v) == IF ATruthy(v) THEN v ELSE AEmpty

WithStatic(opts, options) ==
  IF ATruthy(options) THEN ADefaults(opts, options) ELSE opts

(* C12 as stated: the signature is (params, opts, ...positional): in a     *)
(* call that does not throw, ':$n' is replaced by the n-th argument after  *)
(* params and opts, ':name' by params[name], the body is params minus the  *)
(* consumed keys and the options are opts over the static options.         *)
C12_Original ==
  \A n \in 1..Len(call) :
    LET c      == call[n]
        uri    == c.m.uri
        params == Arg(c.args, 0)
        opts   == Arg(c.args, 1)
    IN  ~c.result.thrown =>
          /\ \A i \in 1..Len(uri) :
               /\ uri[i].k = "pos" =>
                    c.result.uri[i] = Val(Arg(c.args, PosIndex(uri[i].s) + 2))
               /\ uri[i].k = "named" =>
                    c.result.uri[i] = Val(Get(params, uri[i].s))
          /\ c.result.data = Delete(OrEmptyArg(params), NamedOf(uri))
          /\ c.result.opts = WithStatic(OrEmptyArg(opts), c.m.options)

(* C12, amended: the positional placeholders consume the arguments from    *)
(* the front: in a call that does not throw, the k-th positional           *)
(* placeholder in order of occurrence is replaced by the k-th argument,    *)
(* every ':name' by arguments[0][name], and with p positional placeholders *)
(* the body is arguments[p] (or {}) minus the consumed keys and the        *)
(* options are arguments[p + 1] (or {}) over the static options.           *)
C12_PositionalFromFront ==
  \A n \in 1..Len(call) :
    LET c   == call[n]
        uri == c.m.uri
        ps  == PosOf(uri)
        p   == Len(ps)
    IN  ~c.result.thrown =>
          /\ \A k \in 1..p : c.result.uri[ps[k]] = Val(Arg(c.args, k - 1))
          /\ \A i \in 1..Len(uri) :
               uri[i].k = "named" =>
                 c.result.uri[i] = Val(Get(Arg(c.args, 0), uri[i].s))
          /\ c.result.data = Delete(OrEmptyArg(Arg(c.args, p)), NamedOf(uri))
          /\ c.result.opts = WithStatic(OrEmptyArg(Arg(c.args, p + 1)), c.m.options)

(* A call on a template mixing a positional and a named placeholder that   *)
(* does not throw: the first argument serves both placeholders, the        *)
(* second one is the body.                                                 *)
C12_Witness ==
  /\ call # <<>>
  /\ LET c == call[1]
     IN  /\ PosOf(c.m.uri) # <<>>
         /\ NamedOf(c.m.uri) # {}
         /\ ~c.result.thrown
         /\ c.result.uri[2] = Val(AEmpty)
         /\ c.result.data = AObj([cache |-> ANum(0)])
         /\ Arg(c.args, 2) = ANum(1)

(* The four methods of a "CRUD path" entry whose names end in nm.         *)
CrudInterface(path, nm) ==
  << [fn |-> <<"requestCreate", nm>>, method |-> "post", uri |-> path],
     [fn |-> <<"requestOne", nm>>,    method |-> "get",  uri |-> path \o <<Pos("$0")>>],
     [fn |-> <<"requestUpdate", nm>>, method |-> "put",  uri |-> path \o <<Named("id")>>],
     [fn |-> <<"requestDelete", nm>>, method |-> "del",  uri |-> path \o <<Named("id")>>] >>

MethodsOf(r) == [i \in 1..Len(r) |-> [fn |-> r[i].fn, method |-> r[i].method, uri |-> r[i].uri]]

(* The name a mapping value gives: the string, or the fn of the object.    *)
NameOf(value) == IF value.t = "str" THEN value.s ELSE value.o["fn"].s

(* C13 as stated: a "CRUD name" entry generates exactly the four methods   *)
(* requestCreate<Name>, requestOne<Name>, requestUpdate<Name> and          *)
(* requestDelete<Name> (POST name, GET name/:$0, PUT name/:id, DELETE      *)
(* name/:id) with <Name> the camel-cased name of the route string.         *)
C13_Original ==
  (mapping # <<>> /\ mapping.key.verb = "CRUD") =>
    MethodsOf(route) = CrudInterface(mapping.key.uri, camelCase(mapping.key.uri[1].s))

(* C13, amended: a "CRUD path" entry generates exactly those four methods  *)
(* and no method for the entry itself, with <Name> the camel-cased form of *)
(* the entry's value (the string, or the fn of the object), and a call of  *)
(* one of them that does not throw goes to the method's verb.              *)
C13_CrudNamesFromValue ==
  (mapping # <<>> /\ mapping.key.verb = "CRUD") =>
    /\ MethodsOf(route) = CrudInterface(mapping.key.uri, camelCase(NameOf(mapping.value)))
    /\ \A n \in 1..Len(call) :
         ~call[n].result.thrown =>
           \E i \in 1..Len(route) :
             /\ route[i].fn = call[n].fn
             /\ call[n].result.method = route[i].method

(* requestDeleteBar of {'CRUD foo': 'bar'} called with {id: 1}: DELETE     *)
(* foo/1.                                                                  *)
C13_Witness ==
  /\ mapping # <<>>
  /\ mapping.key.verb = "CRUD"
  /\ mapping.value = AStr("bar")
  /\ call # <<>>
  /\ call[1].fn = <<"requestDelete", "Bar">>
  /\ ~call[1].result.thrown
  /\ call[1].result.method = "del"
  /\ call[1].result.uri = <<Lit("foo"), Val(ANum(1))>>

----------------------------------------------------------------------------
(* C19: every sync call registers one more change listener and none is     *)
(* shared: until the controller is destroyed, n sync calls leave n         *)
(* listeners, a change runs the controller handler once per binding with   *)
(* that binding's stored previous value, and when the view becomes         *)
(* available each binding's pending push is made with the previous value   *)
(* that binding captured.                                                  *)
C19_IndependentBindings ==
  /\ [](NumDestroys = 0 => objListeners = [i \in 1..Len(bindings) |-> i])
  /\ [][ /\ (last'.op = "set" /\ NumDestroys = 0 /\ "ctrl" \in defines) =>
              \A b \in 1..Len(bindings) :
                CallsOf(out', "ctrl", b)
                  = <<Call("ctrl", b, prop', bindings[b].previousValue)>>
         /\ (last'.op = "available" /\ available') =>
              \A b \in 1..Len(bindings) :
                LET ls == SyncListeners(viewListeners, b)
                IN  CallsOf(out', "view", b)
                      = [i \in 1..Len(ls) |-> Call("view", b, prop, ls[i].prev)]
       ]_vars

(* Two bindings, a change that ran the controller handler once for each,   *)
(* and two pending pushes that captured different previous values.         *)
C19_Witness ==
  /\ last.op = "set"
  /\ Len(bindings) = 2
  /\ Len(CallsOf(out, "ctrl", 1)) = 1
  /\ Len(CallsOf(out, "ctrl", 2)) = 1
  /\ SyncListeners(viewListeners, 1) # <<>>
  /\ SyncListeners(viewListeners, 2) # <<>>
  /\ SyncListeners(viewListeners, 1)[1].prev # SyncListeners(viewListeners, 2)[1].prev

----------------------------------------------------------------------------
(* Properties of the construction, under SpecNew.                          *)

(* The one-shot availability listener of initialize is still registered.   *)
InitArmed == \E i \in 1..Len(viewListeners) : viewListeners[i].kind = "init"

Notified(o) == SelectSeq(o, LAMBDA c : c.h \in {"view:available", "viewIsAvailable"})

(* C20: new succeeds exactly when setupView left a view assigned, and a    *)
(* failed construction arms nothing; a successful one arms one one-shot    *)
(* availability listener. 'view:available' and viewIsAvailable happen only *)
(* in a step that consumes that listener, once each and in this order, and *)
(* the listener is never armed again: over the controller's lifetime each  *)
(* happens at most once.                                                   *)
C20_ConstructionAndOneShot ==
  /\ [](last.op = "new" =>
          /\ last.thrown = "none" <=> setupView(last.setup).view = "View"
          /\ last.thrown = "none" => view = "View" /\ InitArmed
          /\ last.thrown # "none" => view = "Null" /\ viewListeners = <<>>)
  /\ [](Len(SelectSeq(viewListeners, LAMBDA l : l.kind = "init")) <= 1)
  /\ [][ /\ Notified(out') # <<>> =>
              /\ InitArmed /\ ~InitArmed'
              /\ last'.op \in {"available", "emit"}
              /\ Notified(out') = <<Call("view:available", 0, Undefined, Undefined),
                                    Call("viewIsAvailable", 0, Undefined, Undefined)>>
         /\ ~InitArmed => ~InitArmed' ]_vars

(* The view emits change:available again after the one-shot listener has   *)
(* fired on a live controller: nothing is notified.                        *)
C20_Witness ==
  /\ last.op \in {"available", "emit"}
  /\ NumDestroys = 0
  /\ view = "View"
  /\ ~InitArmed
  /\ Notified(out) = <<>>

----------------------------------------------------------------------------
(* Properties of one sync binding with every option, under SpecSync.       *)

(* The handler calls one dispatch of binding b makes for (cur, prev), in   *)
(* order: controller handler, fn callback, view handler (when the view is  *)
(* available).                                                             *)
Dispatch(bd, b, cur, prev, avail) ==
  (IF hasController(bd) THEN <<Call("ctrl", b, cur, prev)>> ELSE <<>>)
  \o (IF bd.fn
        THEN <<FnCall(b, cur, prev, IF bd.context THEN "context" ELSE "this")>>
        ELSE <<>>)
  \o (IF hasView(bd) /\ avail THEN <<Call("view", b, cur, prev)>> ELSE <<>>)

(* A step in which the property changes to a value the filter passes.      *)
PassingChange ==
  /\ bindings # <<>>
  /\ last'.op = "set"
  /\ filterFn(bindings[1], prop')

(* C14: on a change the filter passes, the binding calls the controller    *)
(* handler, then the fn callback bound to context (or to the controller),  *)
(* then pushes to the view, all with (current, stored previous), and then  *)
(* stores current as the previous value; sync leaves the property's value  *)
(* as the stored previous value and no other step changes it, so each      *)
(* dispatch reports as previous the current value of the dispatch before   *)
(* it, or the value at the return of sync.                                 *)
C14_DispatchOrder ==
  [][ /\ PassingChange =>
           /\ out' = Dispatch(bindings[1], 1, prop', bindings[1].previousValue, available)
           /\ bindings'[1].previousValue = prop'
      /\ (bindings = <<>> /\ bindings' # <<>>) => bindings'[1].previousValue = prop
      /\ (bindings # <<>> /\ ~PassingChange) =>
           bindings'[1].previousValue = bindings[1].previousValue ]_vars

(* A change under a filter function and a context: all three handlers ran, *)
(* in order, with the value before the change as previous.                 *)
C14_Witness ==
  /\ last.op = "set"
  /\ bindings # <<>>
  /\ bindings[1].filter = "notOne"
  /\ out = <<Call("ctrl", 1, <<2>>, <<1>>), FnCall(1, <<2>>, <<1>>, "context"),
             Call("view", 1, <<2>>, <<1>>)>>

(* C15: the filter gates all dispatch. A change for which the filter      *)
(* returns a falsy value calls no handler and registers no deferred view   *)
(* push; a sync call made while the filter fails makes no initial view     *)
(* push and registers none; with no filter option every change is          *)
(* dispatched.                                                             *)
C15_FilterGatesDispatch ==
  [][ /\ (bindings # <<>> /\ last'.op = "set" /\ ~filterFn(bindings[1], prop')) =>
           /\ out' = <<>>
           /\ viewListeners' = viewListeners
           /\ bindings'[1].hasListened = bindings[1].hasListened
      /\ (bindings = <<>> /\ bindings' # <<>> /\ ~filterFn(bindings'[1], prop)) =>
           /\ out' = <<>>
           /\ viewListeners' = viewListeners
           /\ ~bindings'[1].hasListened
      /\ (bindings # <<>> /\ last'.op = "set" /\ bindings[1].filter = "none") =>
           /\ out' = Dispatch(bindings[1], 1, prop', bindings[1].previousValue, available)
           /\ bindings'[1].previousValue = prop' ]_vars

(* A change the filter rejected, on a binding whose three handlers exist   *)
(* and whose view is available: nothing was called.                        *)
C15_Witness ==
  /\ last.op = "set"
  /\ bindings # <<>>
  /\ ~filterFn(bindings[1], prop)
  /\ hasController(bindings[1]) /\ hasView(bindings[1]) /\ bindings[1].fn
  /\ available
  /\ out = <<>>

(* A step that is the sync call of the binding, made with a view handler  *)
(* defined and the filter passing.                                         *)
BindStep ==
  /\ bindings = <<>> /\ bindings' # <<>>
  /\ hasView(bindings'[1])
  /\ filterFn(bindings'[1], prop)

(* C16: with triggerView true the sync call makes exactly one initial view *)
(* push: with the view available the view handler is called once, with the *)
(* property's value, during the call; with the view unavailable it is not  *)
(* called, one deferral is registered, and the handler is called once when *)
(* the view becomes available. With triggerView false the view handler is *)
(* not called and no deferral is registered before the first change        *)
(* notification (the one a sync call with trigger true fires itself        *)
(* counts as one).                                                         *)
C16_OneInitialPush ==
  [][ /\ (BindStep /\ last'.tv /\ available) =>
           /\ Len(CallsOf(out', "view", 1)) = 1
           /\ CallsOf(out', "view", 1)[1].cur = prop
      /\ (BindStep /\ last'.tv /\ ~available) =>
           /\ CallsOf(out', "view", 1) = <<>>
           /\ Len(SyncListeners(viewListeners', 1)) = 1
      /\ (BindStep /\ ~last'.tv /\ ~last'.tr) =>
           /\ CallsOf(out', "view", 1) = <<>>
           /\ SyncListeners(viewListeners', 1) = <<>>
      /\ (bindings # <<>> /\ SyncListeners(viewListeners, 1) # <<>>
            /\ last'.op = "available" /\ available') =>
           Len(CallsOf(out', "view", 1)) = 1 ]_vars

(* C17: a sync call with trigger true (and the filter passing) runs each   *)
(* handler of the binding exactly once during the call: the controller     *)
(* handler, the fn callback, and the view handler when the view is         *)
(* available; a sync call with trigger false runs no controller handler    *)
(* and no fn callback.                                                     *)
C17_HandlersOnceAtBind ==
  [][ (bindings = <<>> /\ bindings' # <<>>) =>
        LET bd == bindings'[1]
        IN  /\ (last'.tr /\ filterFn(bd, prop)) =>
                 /\ hasController(bd) => Len(CallsOf(out', "ctrl", 1)) = 1
                 /\ bd.fn => Len(CallsOf(out', "fn", 1)) = 1
                 /\ (hasView(bd) /\ available) => Len(CallsOf(out', "view", 1)) = 1
            /\ ~last'.tr =>
                 /\ CallsOf(out', "ctrl", 1) = <<>>
                 /\ CallsOf(out', "fn", 1) = <<>> ]_vars

(* The binding was made by sync(name, callback, context).                  *)
CallbackShape(bd) == bd.targetHandler = "null" /\ bd.viewHandler = "null"

BoundTo(bd) == IF bd.context THEN "context" ELSE "this"

(* C18: a binding made by sync(name, callback, context) calls the callback *)
(* once during the sync call and once on every later change, bound to      *)
(* context (to the controller when none is given); it never calls the      *)
(* controller handler or a view handler and never registers a deferred     *)
(* view push, whatever methods the controller defines.                     *)
C18_CallbackOnly ==
  /\ [](bindings # <<>> /\ CallbackShape(bindings[1]) =>
          /\ CallsOf(out, "ctrl", 1) = <<>>
          /\ CallsOf(out, "view", 1) = <<>>
          /\ SyncListeners(viewListeners, 1) = <<>>)
  /\ [][ /\ (bindings = <<>> /\ bindings' # <<>> /\ CallbackShape(bindings'[1])) =>
              out' = <<FnCall(1, prop, Undefined, BoundTo(bindings'[1]))>>
         /\ (bindings # <<>> /\ CallbackShape(bindings[1]) /\ last'.op = "set") =>
              out' = <<FnCall(1, prop', bindings[1].previousValue, BoundTo(bindings[1]))>>
       ]_vars

(* A later change on such a binding of a controller that defines both      *)
(* default-named handlers, with the view available: only the callback ran. *)
C18_Witness ==
  /\ bindings # <<>>
  /\ CallbackShape(bindings[1])
  /\ defines = {"ctrl", "view"}
  /\ available
  /\ last.op = "set"
  /\ out = <<FnCall(1, <<2>>, <<1>>, "this")>>

(* The view emits 'change:available' (its value changed or not).          *)
AvailableEvent == last'.op \in {"available", "emit"}

(* C21: the view handler of a binding is only called while the view is     *)
(* available, and a deferred push is not lost: when 'change:available'     *)
(* arrives with the view still unavailable the binding's one-shot listener *)
(* is registered again with the same captured previous value, and when it  *)
(* arrives with the view available the view handler is called exactly once *)
(* with that value and nothing stays pending.                              *)
C21_DeferredPushNotLost ==
  /\ [](bindings # <<>> /\ CallsOf(out, "view", 1) # <<>> => available)
  /\ [][ (bindings # <<>> /\ AvailableEvent /\ SyncListeners(viewListeners, 1) # <<>>) =>
           LET ls == SyncListeners(viewListeners, 1)
           IN  IF available'
                 THEN /\ CallsOf(out', "view", 1) = <<Call("view", 1, prop, ls[1].prev)>>
                      /\ SyncListeners(viewListeners', 1) = <<>>
                      /\ ~bindings'[1].hasListened
                 ELSE /\ CallsOf(out', "view", 1) = <<>>
                      /\ SyncListeners(viewListeners', 1) = ls
                      /\ bindings'[1].hasListened ]_vars

(* 'change:available' arrived with the view unavailable while a push that  *)
(* captured a defined previous value was pending: it is pending again.     *)
C21_Witness ==
  /\ last.op = "emit"
  /\ ~available
  /\ bindings # <<>>
  /\ out = <<>>
  /\ SyncListeners(viewListeners, 1) # <<>>
  /\ SyncListeners(viewListeners, 1)[1].prev # Undefined

(* The last step was a change the filter of the binding rejected.         *)
AfterRejected ==
  /\ bindings # <<>>
  /\ last.op = "set"
  /\ ~filterFn(bindings[1], prop)

(* C22: a change the filter rejects leaves the binding as it was: the      *)
(* stored previous value and the pending listeners are unchanged, so the   *)
(* next change that passes reports the stored previous value, which is     *)
(* not the value the rejected change set.                                  *)
C22_RejectedChangeKeepsPrevious ==
  [][ /\ (bindings # <<>> /\ last'.op = "set" /\ ~filterFn(bindings[1], prop')) =>
           /\ bindings' = bindings
           /\ viewListeners' = viewListeners
      /\ (AfterRejected /\ PassingChange) =>
           /\ bindings[1].previousValue # prop
           /\ \A i \in 1..Len(out') : out'[i].prev = bindings[1].previousValue
           /\ bindings'[1].previousValue = prop' ]_vars

(* A passing change from the rejected value: the controller handler got a  *)
(* previous value other than the value the property had before the change. *)
C22_Witness ==
  /\ last.op = "set"
  /\ last.from = <<1>>
  /\ bindings # <<>>
  /\ bindings[1].filter = "notOne"
  /\ CallsOf(out, "ctrl", 1) # <<>>
  /\ CallsOf(out, "ctrl", 1)[1].prev # last.from

----------------------------------------------------------------------------
(* C24: a generated route method leaves the caller's arguments as they     *)
(* were: the consumed keys are removed from the body only, and the static  *)
(* options and what the request writes (type, url, timeout) go into the    *)
(* options the request is made with only; in these every key the caller    *)
(* gave keeps the caller's value and the other keys have the static        *)
(* options' values.                                                        *)
C24_ArgumentsUnchanged ==
  \A n \in 1..Len(call) :
    LET c      == call[n]
        res    == c.result
        p      == Len(PosOf(c.m.uri))
        given  == Arg(c.args, p + 1)
        static == c.m.options
    IN  /\ res.args = c.args
        /\ ~res.thrown =>
             /\ res.data.t = "obj" => (DOMAIN res.data.o) \cap NamedOf(c.m.uri) = {}
             /\ res.opts.t = "obj" =>
                  \A k \in DOMAIN res.opts.o :
                    res.opts.o[k] = IF given.t = "obj" /\ k \in DOMAIN given.o
                                      THEN given.o[k]
                                      ELSE static.o[k]
             /\ res.sent.t = "obj" => {"type", "url", "timeout"} \subseteq DOMAIN res.sent.o

(* 'GET foo/:id' declared with the static option cache: 1, called with     *)
(* params holding id and opts {cache: 0}: the body lost id, the request's  *)
(* options hold the caller's cache, the static fn and the type, and both   *)
(* arguments are as the caller passed them.                                *)
C24_Witness ==
  /\ call # <<>>
  /\ LET c == call[1]
     IN  /\ NamedOf(c.m.uri) = {"id"}
         /\ ~c.result.thrown
         /\ c.m.options.t = "obj"
         /\ c.m.options.o["cache"] = ANum(1)
         /\ "id" \notin DOMAIN c.result.data.o
         /\ "id" \in DOMAIN c.result.args[1].o
         /\ c.result.opts.o["cache"] = ANum(0)
         /\ "fn" \in DOMAIN c.result.opts.o
         /\ c.result.sent.o["type"] = AStr("GET")
         /\ c.result.args[2] = AObj([cache |-> ANum(0)])

----------------------------------------------------------------------------
(* Properties of the reentrant teardown, under SpecReentrant.              *)

(* How often teardown callback id ran.                                     *)
Ran(id) == Cardinality({i \in 1..Len(life) : life[i].ev = "callback" /\ life[i].cb = id})

(* C23: whatever the teardown callbacks and the 'unload' handler call,     *)
(* 'unload' is notified at most once, the view's unload is called at most  *)
(* once, no teardown callback runs twice, and the first unload (or         *)
(* destroy) runs every callback pushed before it.                          *)
C23_UnloadOnceUnderReentrancy ==
  /\ Count("trigger:unload") <= 1
  /\ Count("view.unload") <= 1
  /\ \A id \in 1..NumPushed : Ran(id) <= 1
  /\ (last.op \in {"unload", "destroy"} /\ ~last.wasUnloaded) =>
       /\ unbind = <<>>
       /\ \A id \in 1..NumPushed : Ran(id) = 1

----------------------------------------------------------------------------
(* Properties of bind, checked under SpecBind.                             *)

(* The calls of the fn of bind number b during the last notification.      *)
FnCalls(b) == SelectSeq(out, LAMBDA c : c.h = "fn" /\ c.b = b)

(* The filter given to bind number b is a function, the caller's or the    *)
(* method the string names, and it returns a truthy value.                 *)
FilterReturnsTruthy(b) ==
  /\ \/ bindings[b].given = "function"
     \/ bindings[b].given = "method" /\ "filter" \in defines
  /\ prop # <<1>>

(* The notification reaches the listener of bind number b: no listener     *)
(* registered before it for the same event has thrown.                     *)
Reached(b) ==
  \A a \in 1..(b - 1) :
    ~ (/\ bindings[a].event = last.ev
       /\ \/ bindings[a].given = "null"
          \/ bindings[a].given = "method" /\ "filter" \notin defines)

(* C25: on a notification of the controller, the fn of a bind is invoked,  *)
(* once and with the notification's arguments, when the notification is of *)
(* the bind's event and its filter returns a truthy value, and it is not   *)
(* invoked otherwise; a bind without a filter option never invokes its fn. *)
C25_FilterGatesFn ==
  IF last.op # "trigger" THEN TRUE
  ELSE \A b \in 1..Len(bindings) :
         /\ FnCalls(b) # <<>> => bindings[b].event = last.ev /\ FilterReturnsTruthy(b)
         /\ bindings[b].event = last.ev /\ FilterReturnsTruthy(b) /\ Reached(b)
              => FnCalls(b) = <<BindCall(b, last.arg)>>
         /\ Len(FnCalls(b)) <= 1
         /\ bindings[b].given = "none" => FnCalls(b) = <<>>

C25_Witness ==
  /\ last.op = "trigger"
  /\ \E a, b \in 1..Len(bindings) :
       /\ bindings[a].event = last.ev /\ bindings[a].given = "function"
       /\ FnCalls(a) = <<BindCall(a, last.arg)>>
       /\ bindings[b].event = last.ev /\ bindings[b].given = "none"
       /\ FnCalls(b) = <<>>

====
